---------------------------- MODULE Spec2Model ----------------------------
(***************************************************************************)
(* Model of the CPT prediction pipeline of billing_automation:             *)
(*   bedrock_cpt_predictor.parse_json_response   (response parser)         *)
(*   cpt_population.get_predicted_cpt_codes      (retry loop, final parse, *)
(*                                                record normalisation)    *)
(*                                                                         *)
(* A response text is a sequence of tokens.  The tokens keep apart exactly *)
(* what the regular expressions of the parser look at (the four bracket    *)
(* and brace characters) and what the JSON decoder needs (commas, object   *)
(* keys, scalars, white space); a token "w" is a word of prose.  A key     *)
(* token stands for a quoted member name with its colon.  String scalars   *)
(* carry their characters, so that length and emptiness are computed.      *)
(***************************************************************************)
EXTENDS Integers, Sequences, FiniteSets, TLC

VARIABLES
    \* ---- parse_json_response, applied to one response text
    p_pc,            \* "ready" | "done"
    p_in,            \* the argument response_text (an optional text)
    p_out,           \* [raised, val]: what the call gave back
    \* ---- the conversion of one raw entry (cpt_population.py:122-129)
    n_pc,            \* "ready" | "done"
    n_in,            \* the raw entry (item)
    n_out,           \* [raised, val]: converted_item
    \* ---- get_predicted_cpt_codes
    pc,              \* "start" | "loop" | "after_loop" | "done"
    clinical_notes,  \* the argument
    attempt,         \* loop variable of  for attempt in range(max_retries)
    bedrock_prompt,  \* prompt template, a sequence of segments
    predicted_codes_text, \* the latest service answer (an optional text)
    broke,           \* the loop was left by break
    calls,           \* ghost: service calls made so far
    history,         \* ghost: per call [prompt, response, count]
    parsed_text,     \* ghost: the text handed to the final parse
    ret,             \* the returned value (PyNone or a list)
    retSite,         \* which return statement was taken
    \* ---- NotesHandler.extract_clinical_notes_from_html, applied to one document
    h_pc,            \* "ready" | "done"
    h_in,            \* the argument html_content
    h_out,           \* the returned text
    \* ---- extract_progress_notes
    w_pc,            \* "idle" | "scanning" | "parse" | "close" | "display" | "done"
    w_n,             \* len(iframes)
    w_i,             \* the iframe the loop is at, counted from 1
    w_content,       \* clinical_content of extract_iframe_content (optional)
    w_notes,         \* clinical_notes
    w_closed,        \* what close_progress_notes_dialog returned
    w_log,           \* ghost: what was done to the page and the iframes, in order
    w_ret,           \* the returned text
    w_site,          \* which return statement was taken
    \* ---- the final parse of get_predicted_cpt_codes, applied to one payload
    s_pc,            \* "ready" | "done"
    s_in,            \* the outcome of parse_json_response
    s_out,           \* [site, val]: the return statement taken and its value
    \* ---- populate_cpt_and_icd_codes
    u_pc,            \* "start" | "cpt" | "icd" | "done"
    u_pred,          \* [site, val]: what get_predicted_cpt_codes returned
    u_i,             \* the record the loop is at, counted from 1
    u_grid,          \* the rows of the billing grid, first row first
    u_log            \* ghost: what was done to the page, in order

pvars == <<p_pc, p_in, p_out>>
nvars == <<n_pc, n_in, n_out>>
gvars == <<pc, clinical_notes, attempt, bedrock_prompt, predicted_codes_text,
           broke, calls, history, parsed_text, ret, retSite>>
hvars == <<h_pc, h_in, h_out>>
wvars == <<w_pc, w_n, w_i, w_content, w_notes, w_closed, w_log, w_ret, w_site>>
svars == <<s_pc, s_in, s_out>>
uvars == <<u_pc, u_pred, u_i, u_grid, u_log>>
ovars == <<hvars, wvars, svars, uvars>>
vars == <<p_pc, p_in, p_out, n_pc, n_in, n_out,
          pc, clinical_notes, attempt, bedrock_prompt, predicted_codes_text,
          broke, calls, history, parsed_text, ret, retSite,
          h_pc, h_in, h_out,
          w_pc, w_n, w_i, w_content, w_notes, w_closed, w_log, w_ret, w_site,
          s_pc, s_in, s_out,
          u_pc, u_pred, u_i, u_grid, u_log>>

-----------------------------------------------------------------------------
(* Tokens of a text *)

Tok(k, key, chars) == [k |-> k, key |-> key, chars |-> chars]
LBrack == Tok("[", "", <<>>)
RBrack == Tok("]", "", <<>>)
LBrace == Tok("{", "", <<>>)
RBrace == Tok("}", "", <<>>)
Comma  == Tok(",", "", <<>>)
Word   == Tok("w", "", <<>>)
Ws     == Tok("ws", "", <<>>)
Null   == Tok("null", "", <<>>)
Key(name)  == Tok("key", name, <<>>)
Str(chars) == Tok("str", "", chars)
Num(chars) == Tok("num", "", chars)

(* Python values: None, list, dict, str, number *)

PyNone       == [t |-> "none", items |-> <<>>, map |-> <<>>, chars |-> <<>>]
PyList(xs)   == [t |-> "list", items |-> xs,   map |-> <<>>, chars |-> <<>>]
PyDict(m)    == [t |-> "dict", items |-> <<>>, map |-> m,    chars |-> <<>>]
PyStr(chars) == [t |-> "str",  items |-> <<>>, map |-> <<>>, chars |-> chars]
PyNum(chars) == [t |-> "num",  items |-> <<>>, map |-> <<>>, chars |-> chars]

\* an optional text: None, or a str holding tokens
NoText     == [some |-> FALSE, text |-> <<>>]
Text(toks) == [some |-> TRUE,  text |-> toks]

\* the outcome of a call: a value, or an exception that left the call
Returned(v) == [raised |-> FALSE, val |-> v]
Raised      == [raised |-> TRUE,  val |-> PyNone]

IsZeroNum(chars) == \A i \in 1..Len(chars) : chars[i] = "0"

\* bool(v)
Truthy(v) ==
    CASE v.t = "none" -> FALSE
      [] v.t = "list" -> Len(v.items) > 0
      [] v.t = "dict" -> DOMAIN v.map # {}
      [] v.t = "str"  -> Len(v.chars) > 0
      [] v.t = "num"  -> ~IsZeroNum(v.chars)
      [] OTHER        -> FALSE

\* d[k] = v on a dict's mapping (a later duplicate member replaces an earlier)
Put(m, k, v) == [x \in (DOMAIN m) \cup {k} |-> IF x = k THEN v ELSE m[x]]

-----------------------------------------------------------------------------
(* json.loads on a span of tokens *)

ParseFail == [ok |-> FALSE, val |-> PyNone, next |-> 0]
ParseOk(v, n) == [ok |-> TRUE, val |-> v, next |-> n]

RECURSIVE ParseValue(_, _)
RECURSIVE ParseElems(_, _, _)
RECURSIVE ParseMembers(_, _, _)
RECURSIVE ElemsAfter(_, _, _)
RECURSIVE MembersAfter(_, _, _, _)

\* one JSON value starting at s[i]
ParseValue(s, i) ==
    IF i > Len(s) THEN ParseFail
    ELSE CASE s[i].k = "["    -> IF i + 1 <= Len(s) /\ s[i+1].k = "]"
                                 THEN ParseOk(PyList(<<>>), i + 2)
                                 ELSE ParseElems(s, i + 1, <<>>)
           [] s[i].k = "{"    -> IF i + 1 <= Len(s) /\ s[i+1].k = "}"
                                 THEN ParseOk(PyDict(<<>>), i + 2)
                                 ELSE ParseMembers(s, i + 1, <<>>)
           [] s[i].k = "str"  -> ParseOk(PyStr(s[i].chars), i + 1)
           [] s[i].k = "num"  -> ParseOk(PyNum(s[i].chars), i + 1)
           [] s[i].k = "null" -> ParseOk(PyNone, i + 1)
           [] OTHER           -> ParseFail

\* the elements of an array: a value at s[i], then "," or "]"
ParseElems(s, i, acc) == ElemsAfter(s, acc, ParseValue(s, i))

\* r is the element just read
ElemsAfter(s, acc, r) ==
    IF ~r.ok \/ r.next > Len(s) THEN ParseFail
    ELSE IF s[r.next].k = "," THEN ParseElems(s, r.next + 1, Append(acc, r.val))
    ELSE IF s[r.next].k = "]" THEN ParseOk(PyList(Append(acc, r.val)), r.next + 1)
    ELSE ParseFail

\* the members of an object: a key at s[i], its value, then "," or "}"
ParseMembers(s, i, acc) ==
    IF i > Len(s) \/ s[i].k # "key" THEN ParseFail
    ELSE MembersAfter(s, s[i].key, acc, ParseValue(s, i + 1))

\* r is the value just read for the member named key
MembersAfter(s, key, acc, r) ==
    IF ~r.ok \/ r.next > Len(s) THEN ParseFail
    ELSE IF s[r.next].k = "," THEN ParseMembers(s, r.next + 1, Put(acc, key, r.val))
    ELSE IF s[r.next].k = "}" THEN ParseOk(PyDict(Put(acc, key, r.val)), r.next + 1)
    ELSE ParseFail

NotWs(tok) == tok.k # "ws"

\* r is the value read from the start of t: nothing may follow it
WholeValue(t, r) ==
    IF r.ok /\ r.next = Len(t) + 1
    THEN [ok |-> TRUE, val |-> r.val]
    ELSE [ok |-> FALSE, val |-> PyNone]

DecodeTokens(t) == WholeValue(t, ParseValue(t, 1))

\* json.loads(json_str): the whole span must be one value (white space apart)
json_loads(span) == DecodeTokens(SelectSeq(span, NotWs))

-----------------------------------------------------------------------------
(* str.strip and re.search *)

SetMin(S) == CHOOSE x \in S : \A y \in S : x <= y
SetMax(S) == CHOOSE x \in S : \A y \in S : x >= y

\* response_text.strip(): leading and trailing white space removed
strip(s) ==
    LET keep == {i \in 1..Len(s) : s[i].k # "ws"} IN
    IF keep = {} THEN <<>>
    ELSE SubSeq(s, SetMin(keep), SetMax(keep))

NoMatch == [found |-> FALSE, from |-> 0, to |-> 0]

\* a greedy search (open .* close): extended to the last close
re_search_greedy(open, close, s) ==
    LET starts == {i \in 1..Len(s) :
                      /\ s[i].k = open
                      /\ \E j \in (i+1)..Len(s) : s[j].k = close}
    IN  IF starts = {} THEN NoMatch
        ELSE LET i == SetMin(starts)
                 j == SetMax({j \in (i+1)..Len(s) : s[j].k = close})
             IN  [found |-> TRUE, from |-> i, to |-> j]

\* re.search(open .*? close, s, re.DOTALL): the leftmost start that can match,
\* extended to the nearest close after it
re_search(open, close, s) ==
    LET starts == {i \in 1..Len(s) :
                      /\ s[i].k = open
                      /\ \E j \in (i+1)..Len(s) : s[j].k = close}
    IN  IF starts = {} THEN NoMatch
        ELSE LET i == SetMin(starts)
                 j == SetMin({j \in (i+1)..Len(s) : s[j].k = close})
             IN  [found |-> TRUE, from |-> i, to |-> j]

\* a selection that looks for the object before the array
SelectSpanObjectFirst(cleaned_text) ==
    LET a == re_search("{", "}", cleaned_text) IN
    IF a.found THEN a
    ELSE re_search("[", "]", cleaned_text)

\* the span json_str that parse_json_response hands to json.loads
SelectSpan(cleaned_text) ==
    LET a == re_search("[", "]", cleaned_text) IN
    IF a.found THEN a
    ELSE re_search("{", "}", cleaned_text)

\* the outcome of json.loads: the value, or JSONDecodeError
Loaded(d) == IF d.ok THEN Returned(d.val) ELSE Raised

\* json_str = json_match.group(), then json.loads(json_str)
DecodeSpan(cleaned_text, json_match) ==
    IF ~json_match.found THEN Returned(PyNone)
    ELSE Loaded(json_loads(SubSeq(cleaned_text, json_match.from, json_match.to)))

SearchAndDecode(cleaned_text) == DecodeSpan(cleaned_text, SelectSpan(cleaned_text))

\* the try block of parse_json_response
ParseBody(response_text) ==
    IF ~response_text.some \/ response_text.text = <<>> THEN Returned(PyNone)
    ELSE SearchAndDecode(strip(response_text.text))

\* no except clause: the exception leaves the function
ExceptPropagates(b) == b

\* the two except clauses of parse_json_response: each returns None
ExceptReturnsNone(b) == IF b.raised THEN Returned(PyNone) ELSE b

\* parse_json_response(response_text)
parse_json_response(response_text) == ExceptReturnsNone(ParseBody(response_text))

-----------------------------------------------------------------------------
(* Python operations used by get_predicted_cpt_codes *)

\* len(v): TypeError on None and on a number
PyLen(v) ==
    CASE v.t = "list" -> [raised |-> FALSE, n |-> Len(v.items)]
      [] v.t = "dict" -> [raised |-> FALSE, n |-> Cardinality(DOMAIN v.map)]
      [] v.t = "str"  -> [raised |-> FALSE, n |-> Len(v.chars)]
      [] OTHER        -> [raised |-> TRUE,  n |-> 0]

\* item.get(k, default) on a dict
DictGet(item, k, default) ==
    IF k \in DOMAIN item.map THEN item.map[k] ELSE default

\* a or b
PyOr(a, b) == IF Truthy(a) THEN a ELSE b

EmptyStr == PyStr(<<>>)

\* the three keys tried in the opposite order
CodeValueReversed(item) ==
    PyOr(DictGet(item, "code", PyNone),
         PyOr(DictGet(item, "cptCode", PyNone),
              PyOr(DictGet(item, "cpt", PyNone), EmptyStr)))

\* item.get('cpt') or item.get('cptCode') or item.get('code') or ''
CodeValue(item) ==
    PyOr(DictGet(item, "cpt", PyNone),
         PyOr(DictGet(item, "cptCode", PyNone),
              PyOr(DictGet(item, "code", PyNone), EmptyStr)))

\* an entry taken over as it is
ConvertItemAsIs(item) ==
    IF item.t # "dict" THEN Raised ELSE Returned(item)

\* converted_item of one raw entry; item.get raises on anything but a dict
ConvertItem(item) ==
    IF item.t # "dict" THEN Raised
    ELSE Returned(PyDict(
           [k \in {"code", "modifier1", "modifier2", "description"} |->
              IF k = "code" THEN CodeValue(item)
              ELSE DictGet(item, k, EmptyStr)]))

\* the loop  for item in parsed_json: cpt_codes.append(converted_item)
ConvertAll(items) ==
    IF \E i \in 1..Len(items) : ConvertItem(items[i]).raised THEN Raised
    ELSE Returned(PyList([i \in 1..Len(items) |-> ConvertItem(items[i]).val]))

\* the quick check of an attempt: code_count of the probe parse
CodeCount(temp_parsed) ==
    IF ~Truthy(temp_parsed) THEN [raised |-> FALSE, n |-> 0]
    ELSE IF temp_parsed.t = "list" THEN [raised |-> FALSE, n |-> Len(temp_parsed.items)]
    ELSE IF temp_parsed.t = "dict" THEN
         IF "cpt_codes" \in DOMAIN temp_parsed.map THEN PyLen(temp_parsed.map["cpt_codes"])
         ELSE IF "codes" \in DOMAIN temp_parsed.map THEN PyLen(temp_parsed.map["codes"])
         ELSE [raised |-> FALSE, n |-> 0]
    ELSE [raised |-> FALSE, n |-> 0]

\* for i, cpt in enumerate(cpt_codes, 1): cpt.get(...)   (the display loop)
DisplayRaises(cpt_codes) ==
    CASE cpt_codes.t = "list" -> \E i \in 1..Len(cpt_codes.items) :
                                     cpt_codes.items[i].t # "dict"
      [] cpt_codes.t = "dict" -> TRUE    \* iterates the keys, which are str
      [] cpt_codes.t = "str"  -> TRUE    \* iterates the characters
      [] OTHER                -> TRUE    \* not iterable

\* the two keys tried in the opposite order
WrappedCodesFirst(parsed_json) ==
    IF "codes" \in DOMAIN parsed_json.map THEN parsed_json.map["codes"]
    ELSE IF "cpt_codes" \in DOMAIN parsed_json.map THEN parsed_json.map["cpt_codes"]
    ELSE PyList(<<>>)

\* the value bound to cpt_codes when parsed_json is a dict (lines 133-137)
WrappedCodes(parsed_json) ==
    IF "cpt_codes" \in DOMAIN parsed_json.map THEN parsed_json.map["cpt_codes"]
    ELSE IF "codes" \in DOMAIN parsed_json.map THEN parsed_json.map["codes"]
    ELSE PyList(<<>>)

\* lines 139-158, n being the outcome of len(cpt_codes): [site, val]
ReturnCodes(cpt_codes, n) ==
    IF ~Truthy(cpt_codes) THEN [site |-> "no_valid_codes", val |-> PyNone]
    ELSE IF n.raised THEN [site |-> "exception", val |-> PyNone]
    ELSE IF n.n = 0 THEN [site |-> "no_valid_codes", val |-> PyNone]
    ELSE IF DisplayRaises(cpt_codes) THEN [site |-> "exception", val |-> PyNone]
    ELSE [site |-> "codes", val |-> cpt_codes]

\* lines 118-130, conv being the outcome of the conversion loop
ReturnConverted(conv) ==
    IF conv.raised THEN [site |-> "exception", val |-> PyNone]
    ELSE ReturnCodes(conv.val, PyLen(conv.val))

\* lines 114-162, call being the outcome of the final parse_json_response
AfterFinalParse(call) ==
    IF call.raised THEN [site |-> "exception", val |-> PyNone]
    ELSE IF ~Truthy(call.val) THEN [site |-> "parse_failure", val |-> PyNone]
    ELSE IF call.val.t = "list" THEN ReturnConverted(ConvertAll(call.val.items))
    ELSE ReturnCodes(WrappedCodes(call.val), PyLen(WrappedCodes(call.val)))

\* everything after the loop from "Parse JSON response" on: [site, val]
FinalParse(text) == AfterFinalParse(parse_json_response(text))

-----------------------------------------------------------------------------
(* Constants of get_predicted_cpt_codes and the inputs of the model *)

max_retries        == 3
min_expected_codes == 4
MinNotesLen        == 50

MaxPad      == 1    \* white space before and after the notes: 0..MaxPad each
MaxEntries  == 5    \* entries in an array returned by the service
MaxBefore   == 2    \* tokens of prose before the JSON of a response
MaxAfter    == 1    \* tokens of prose after it

C99213 == <<"9", "9", "2", "1", "3">>
C91122 == <<"9", "1", "1", "2", "2">>
M25    == <<"2", "5">>
Visit  == <<"O", "f", "f", "i", "c", "e", " ", "v", "i", "s", "i", "t">>

\* clinical notes: None, or a str of lead white space, body, trail white space
\* (body is what strip() leaves: it starts and ends with a visible character)
NoNotes == [none |-> TRUE, lead |-> 0, body |-> 0, trail |-> 0]
NotesInputs ==
    {NoNotes} \cup
    [none : {FALSE}, lead : 0..MaxPad, trail : 0..MaxPad,
     body : {0, MinNotesLen - 10, MinNotesLen - 1, MinNotesLen, MinNotesLen + 1}]

NotesLen(n)     == n.lead + n.body + n.trail      \* len(clinical_notes)
StrippedLen(n)  == n.body                         \* len(clinical_notes.strip())

\* the length check without strip()
NotesTooShortUntrimmed(n) == n.none \/ NotesLen(n) < MinNotesLen

\* not clinical_notes or len(clinical_notes.strip()) < 50
NotesTooShort(n) == n.none \/ NotesLen(n) = 0 \/ StrippedLen(n) < MinNotesLen

RECURSIVE Join(_)
\* the entries of an array, separated by commas
Join(entries) ==
    IF Len(entries) = 0 THEN <<>>
    ELSE IF Len(entries) = 1 THEN entries[1]
    ELSE entries[1] \o <<Comma>> \o Join(Tail(entries))

ArrayText(entries) == <<LBrack>> \o Join(entries) \o <<RBrack>>

EntryWithCode == <<LBrace, Key("code"), Str(C99213), RBrace>>
EntryNoCode   == <<LBrace, Key("description"), Str(Visit), RBrace>>

\* an array of n entries of which the first `missing` have no code
ArrayOf(n, missing) ==
    ArrayText([i \in 1..n |-> IF i <= missing THEN EntryNoCode ELSE EntryWithCode])

\* an object holding under cpt_codes an array of the expected number of
\* entries, each keyed cptCode
WrappedArray ==
    <<LBrace, Key("cpt_codes")>>
      \o ArrayText([i \in 1..min_expected_codes |->
                       <<LBrace, Key("cptCode"), Str(C91122), RBrace>>])
      \o <<RBrace>>

\* what the prediction service may answer
ServiceResponses ==
    {NoText, Text(<<>>), Text(<<Word, Word>>)}
    \cup {Text(ArrayOf(n, 0)) : n \in 0..MaxEntries}
    \cup {Text(ArrayOf(n, 1)) : n \in 1..MaxEntries}
    \cup {Text(<<Word>> \o ArrayOf(min_expected_codes, 0) \o <<Word>>),
          Text(<<LBrace, Key("cpt_codes"), Num(<<"5">>), RBrace>>),
          Text(<<LBrace, Key("codes"), Str(C99213), RBrace>>),
          Text(<<LBrace, Key("result"), Str(M25), RBrace>>),
          Text(ArrayText([i \in 1..min_expected_codes |-> <<Num(<<"1">>)>>])),
          Text(WrappedArray)}

\* bool(predicted_codes_text)
HasText(r) == r.some /\ r.text # <<>>

\* the prompt: the template read in lines 42-47, then the appended paragraphs
BasePrompt(src) == <<[kind |-> src, n |-> 0, got |-> 0]>>
AtLeastInstruction(count) ==
    [kind |-> "at_least", n |-> min_expected_codes, got |-> count]

-----------------------------------------------------------------------------
(* Inputs of the parser and of the entry conversion *)

ProseAlphabet == {Word, Ws, LBrack, RBrack, LBrace, RBrace}

\* all sequences over S of length at most n
SeqsUpTo(S, n) == UNION {[1..k -> S] : k \in 0..n}

\* the entry of the parser's round-trip property
OfficeEntry ==
    <<LBrace, Key("code"), Str(C99213), Comma, Key("modifier1"), Str(M25), Comma,
      Key("modifier2"), Str(<<>>), Comma, Key("description"), Str(Visit), RBrace>>
OfficeArray == ArrayText(<<OfficeEntry>>)

\* the decoded OfficeEntry
OfficeValue ==
    PyDict([k \in {"code", "modifier1", "modifier2", "description"} |->
              CASE k = "code"        -> PyStr(C99213)
                [] k = "modifier1"   -> PyStr(M25)
                [] k = "modifier2"   -> PyStr(<<>>)
                [] k = "description" -> PyStr(Visit)])

\* what stands between the prose before and the prose after
Cores ==
    { <<>>,
      OfficeArray,
      <<LBrack, RBrack>>,
      <<LBrace, RBrace>>,
      <<LBrack, Ws, Num(<<"1">>), Ws, Comma, Null, RBrack>>,
      <<LBrack, Word, RBrack>>,
      <<LBrack, Str(M25), Comma, RBrack>>,
      <<LBrack, LBrack, Num(<<"1">>), RBrack, Comma, Num(<<"2">>), RBrack>>,
      <<LBrace, Key("cpt_codes"), Num(<<"5">>), RBrace>>,
      <<LBrace, Key("codes"), Str(C99213), Comma, Key("codes"), Str(M25), RBrace>>,
      <<LBrace, Key("cpt_codes")>> \o ArrayOf(1, 0) \o <<RBrace>>,
      <<LBrace, Str(M25), RBrace>>,
      <<Str(C99213)>> }

\* a text given to the parser: a core between prose b and prose a
ParserInput(b, c, a) == Text(b \o c \o a)

\* raw entries: each key absent, or holding '', null, or a value of its own
\* (a code key may also hold the number 0)
OwnValue(k) ==
    CASE k = "cpt"         -> PyStr(C99213)
      [] k = "cptCode"     -> PyStr(C91122)
      [] k = "code"        -> PyStr(<<"9", "7", "1", "1", "0">>)
      [] k = "modifier1"   -> PyStr(M25)
      [] k = "modifier2"   -> PyStr(<<"5", "9">>)
      [] k = "description" -> PyStr(Visit)

EntryKeys == {"cpt", "cptCode", "code", "modifier1", "modifier2", "description"}
CodeKeys  == {"cpt", "cptCode", "code"}

\* choice 0: key absent; 1: ''; 2: null; 3: the key's own value; 4: the number 0
ValueAt(k, c) ==
    CASE c = 1 -> EmptyStr
      [] c = 2 -> PyNone
      [] c = 3 -> OwnValue(k)
      [] c = 4 -> PyNum(<<"0">>)

EntryChoices ==
    {c \in [EntryKeys -> 0..4] : \A k \in EntryKeys \ CodeKeys : c[k] <= 3}

MappingOf(c) == [k \in {x \in EntryKeys : c[x] # 0} |-> ValueAt(k, c[k])]

Mappings == {MappingOf(c) : c \in EntryChoices}

RawEntries ==
    {PyDict(m) : m \in Mappings}
    \cup {PyNone, PyStr(C99213), PyNum(<<"1">>), PyList(<<>>)}

-----------------------------------------------------------------------------
(* HTML text: notes_handler.NotesHandler                                    *)
(*                                                                          *)
(* A string of HTML is a sequence of atoms [k, s, n]: k is the kind, s the  *)
(* characters and n their number.  A "tag" atom is one well-formed tag from *)
(* its "<" to its ">"; a "word" atom is a run of characters without white   *)
(* space, "<", ">", "&" or "\"; "sp" and "nl" are one white-space character;*)
(* an "ent" atom is one of the entities of the cleaning table; a "chr" atom *)
(* is one of the characters "<", ">", "&"; "esc" is a backslash followed by *)
(* the letter n; "msg" is one of the fixed messages of the code.  The raw   *)
(* documents of the model hold no "chr" atom: every "<" opens a tag.        *)

Atom(k, s, n) == [k |-> k, s |-> s, n |-> n]
HTag(name, n) == Atom("tag", name, n)
HWord(s, n)   == Atom("word", s, n)
Fill(n)       == Atom("word", "x", n)
FillSeq(n)    == IF n > 0 THEN <<Fill(n)>> ELSE <<>>
Sp            == Atom("sp", " ", 1)
Nl            == Atom("nl", "nl", 1)
Chr(c)        == Atom("chr", c, 1)
Esc           == Atom("esc", "\\n", 2)
Msg(s, n)     == Atom("msg", s, n)

TagB        == HTag("b", 3)
TagEndB     == HTag("/b", 4)
TagI        == HTag("i", 3)
TagEndI     == HTag("/i", 4)
TagSpan     == HTag("span", 6)
TagEndSpan  == HTag("/span", 7)
TagTd       == HTag("td", 4)
TagEndTd    == HTag("/td", 5)
TagEndTable == HTag("/table", 8)

EntNbsp == Atom("ent", "&nbsp;", 6)
EntAmp  == Atom("ent", "&amp;", 5)
EntLt   == Atom("ent", "&lt;", 4)
EntGt   == Atom("ent", "&gt;", 4)
EntQuot == Atom("ent", "&quot;", 6)
EntNum  == Atom("ent", "&#39;", 5)
EntApos == Atom("ent", "&apos;", 6)

LblPatient     == HWord("Patient:", 8)
LblSubjective  == HWord("Subjective:", 11)
LblHPI         == HWord("HPI:", 4)
LblObjective   == HWord("Objective:", 10)
LblExamination == HWord("Examination:", 12)
LblAssessment  == HWord("Assessment:", 11)
LblPlan        == HWord("Plan:", 5)
LblTreatment   == HWord("Treatment:", 10)
WProcedure     == HWord("Procedure", 9)
WCodes         == HWord("Codes:", 6)
WVisit         == HWord("Visit", 5)
WCode          == HWord("Code:", 5)
WDetails       == HWord("Details:", 8)
WPFPT          == HWord("PFPT", 4)
WPelvic        == HWord("pelvic", 6)
WPelvicCap     == HWord("Pelvic", 6)
WFloor         == HWord("floor", 5)
WPain          == HWord("pain", 4)
WPainCap       == HWord("Pain", 4)
WPhysical      == HWord("physical", 8)
WTherapy       == HWord("therapy", 7)
WStimulation   == HWord("stimulation", 11)
WElectrical    == HWord("electrical", 10)
WMuscles       == HWord("muscles", 7)
WTestComma     == HWord("Test,", 5)
WManu          == HWord("Manu", 4)
WDoe           == HWord("Doe", 3)

\* str.lower() of a word of the vocabulary
Lower(s) ==
    CASE s = "Patient:"     -> "patient:"
      [] s = "Subjective:"  -> "subjective:"
      [] s = "HPI:"         -> "hpi:"
      [] s = "Objective:"   -> "objective:"
      [] s = "Examination:" -> "examination:"
      [] s = "Assessment:"  -> "assessment:"
      [] s = "Plan:"        -> "plan:"
      [] s = "Treatment:"   -> "treatment:"
      [] s = "Procedure"    -> "procedure"
      [] s = "Codes:"       -> "codes:"
      [] s = "Visit"        -> "visit"
      [] s = "Code:"        -> "code:"
      [] s = "Details:"     -> "details:"
      [] s = "PFPT"         -> "pfpt"
      [] s = "Pelvic"       -> "pelvic"
      [] s = "Pain"         -> "pain"
      [] s = "Test,"        -> "test,"
      [] s = "Manu"         -> "manu"
      [] s = "Doe"          -> "doe"
      [] OTHER              -> s

\* len(): the number of characters
RECURSIVE StrLen(_)
StrLen(c) == IF c = <<>> THEN 0 ELSE Head(c).n + StrLen(Tail(c))

IsWs(a) == a.k \in {"sp", "nl"}

\* str.strip()
str_strip(c) ==
    LET keep == {i \in 1..Len(c) : ~IsWs(c[i])} IN
    IF keep = {} THEN <<>>
    ELSE SubSeq(c, SetMin(keep), SetMax(keep))

\* re.sub(r'<[^>]+>', ' ', content)
StripTags(c) == [i \in 1..Len(c) |-> IF c[i].k = "tag" THEN Sp ELSE c[i]]

\* the replacement of one entity of the table html_entities
Replacement(a) ==
    CASE a.s = "&nbsp;" -> Sp
      [] a.s = "&amp;"  -> Chr("&")
      [] a.s = "&lt;"   -> Chr("<")
      [] a.s = "&gt;"   -> Chr(">")
      [] a.s = "&quot;" -> Chr("quote")
      [] a.s = "&#39;"  -> Chr("'")
      [] a.s = "&apos;" -> Chr("'")

\* for entity, replacement in html_entities.items(): content.replace(...)
DecodeEntities(c) == [i \in 1..Len(c) |-> IF c[i].k = "ent" THEN Replacement(c[i]) ELSE c[i]]

\* re.sub(r'\s+', ' ', content): every run of white space becomes one space
RECURSIVE CollapseFrom(_, _)
CollapseFrom(c, i) ==
    IF i > Len(c) THEN <<>>
    ELSE IF ~IsWs(c[i]) THEN <<c[i]>> \o CollapseFrom(c, i + 1)
    ELSE IF i > 1 /\ IsWs(c[i - 1]) THEN CollapseFrom(c, i + 1)
    ELSE <<Sp>> \o CollapseFrom(c, i + 1)

CollapseWs(c) == CollapseFrom(c, 1)

\* _clean_html_content: after the white space is collapsed the text holds no
\* newline, so the split gives one line, which is stripped
clean_html_content(content) ==
    IF content = <<>> THEN <<>>
    ELSE str_strip(CollapseWs(DecodeEntities(StripTags(content))))

\* the atom at position i of s is a
At(s, i, a) == i \in 1..Len(s) /\ s[i] = a

\* \s* from position i: the first position that holds no white space
SkipWs(s, i) == SetMin({j \in i..(Len(s) + 1) : j = Len(s) + 1 \/ ~IsWs(s[j])})

\* [^<]: an atom without "<"
NoLt(a) == a.k # "tag" /\ a # Chr("<")

\* [^>]: an atom without ">"
NoGt(a) == a.k # "tag" /\ a # Chr(">")

\* [^<]* from position i: the first position whose atom has a "<"
SkipNoLt(s, i) == SetMin({j \in i..(Len(s) + 1) : j = Len(s) + 1 \/ ~NoLt(s[j])})

\* <b>label\s*</b> matched at i: the position after it, or 0
BoldHeaderEnd(s, i, label) ==
    IF At(s, i, TagB) /\ At(s, i + 1, label) /\ At(s, SkipWs(s, i + 2), TagEndB)
    THEN SkipWs(s, i + 2) + 1 ELSE 0

\* <span[^>]*><b>label</b></span> matched at i
SpanHeaderAt(s, i, label) ==
    /\ At(s, i, TagSpan) /\ At(s, i + 1, TagB) /\ At(s, i + 2, label)
    /\ At(s, i + 3, TagEndB) /\ At(s, i + 4, TagEndSpan)

\* <b>(?:l1|l2|...): a bold tag followed by one of the labels
BoldLabelAt(s, i, labels) == At(s, i, TagB) /\ i + 1 <= Len(s) /\ s[i + 1] \in labels

\* (.*?)(?=stop|$) from position from: up to the first stop, else to the end
LazyTo(s, from, stops) ==
    IF {j \in stops : j >= from} = {} THEN SubSeq(s, from, Len(s))
    ELSE SubSeq(s, from, SetMin({j \in stops : j >= from}) - 1)

NoSection == [found |-> FALSE, name |-> <<>>, body |-> <<>>]
Section(name, body) == [found |-> TRUE, name |-> name, body |-> body]

\* pattern 1 matched with its header at i (h is the position after the header)
PatientCanMatch(s, h) ==
    /\ h # 0 /\ h <= Len(s) /\ NoLt(s[h])
    /\ \E k \in SkipNoLt(s, h)..Len(s) : SpanHeaderAt(s, k, LblSubjective)

PatientGroups(s, h, k) ==
    Section(SubSeq(s, h, SkipNoLt(s, h) - 1),
            LazyTo(s, k + 5, {j \in 1..Len(s) : SpanHeaderAt(s, j, LblAssessment)}))

PatientAt(s, h) ==
    PatientGroups(s, h, SetMin({k \in SkipNoLt(s, h)..Len(s) : SpanHeaderAt(s, k, LblSubjective)}))

\* re.search(patient_pattern, html_content)
patient_match(s) ==
    LET starts == {i \in 1..Len(s) : PatientCanMatch(s, BoldHeaderEnd(s, i, LblPatient))} IN
    IF starts = {} THEN NoSection
    ELSE PatientAt(s, BoldHeaderEnd(s, SetMin(starts), LblPatient))

\* a header <b>label\s*</b> and the text up to the next stop label
HeaderSection(s, label, stopLabels) ==
    LET starts == {i \in 1..Len(s) : BoldHeaderEnd(s, i, label) # 0} IN
    IF starts = {} THEN NoSection
    ELSE Section(<<>>, LazyTo(s, BoldHeaderEnd(s, SetMin(starts), label),
                              {j \in 1..Len(s) : BoldLabelAt(s, j, stopLabels)}))

\* re.search(hpi_pattern, html_content)
hpi_match(s) == HeaderSection(s, LblHPI, {LblObjective, LblExamination, LblAssessment})

\* re.search(assessment_pattern, html_content)
assessment_match(s) == HeaderSection(s, LblAssessment, {LblPlan, LblTreatment})

\* <b>Examination:[^<]*</b> matched at i: the position after it, or 0
ExamHeaderEnd(s, i) ==
    IF At(s, i, TagB) /\ At(s, i + 1, LblExamination) /\ At(s, SkipNoLt(s, i + 2), TagEndB)
    THEN SkipNoLt(s, i + 2) + 1 ELSE 0

\* re.search(exam_pattern, html_content)
exam_match(s) ==
    LET starts == {i \in 1..Len(s) : ExamHeaderEnd(s, i) # 0} IN
    IF starts = {} THEN NoSection
    ELSE Section(<<>>, LazyTo(s, ExamHeaderEnd(s, SetMin(starts)),
                              {j \in 1..Len(s) : BoldLabelAt(s, j, {LblAssessment, LblPlan})}))

\* <b>first\s+second</b> matched at i: the position after it, or 0
TwoWordHeaderEnd(s, i, first, second) ==
    IF /\ At(s, i, TagB) /\ At(s, i + 1, first)
       /\ i + 2 <= Len(s) /\ IsWs(s[i + 2])
       /\ At(s, SkipWs(s, i + 2), second) /\ At(s, SkipWs(s, i + 2) + 1, TagEndB)
    THEN SkipWs(s, i + 2) + 2 ELSE 0

\* <b>[^>]*</b> matched at j
BoldElementAt(s, j) ==
    /\ At(s, j, TagB)
    /\ \E e \in (j + 1)..Len(s) :
          s[e] = TagEndB /\ \A m \in (j + 1)..(e - 1) : NoGt(s[m])

\* the stops of patterns 6 and 7: </table>, a bold element, the end
TableOrBoldStops(s) == {j \in 1..Len(s) : s[j] = TagEndTable \/ BoldElementAt(s, j)}

TwoWordSection(s, first, second) ==
    LET starts == {i \in 1..Len(s) : TwoWordHeaderEnd(s, i, first, second) # 0} IN
    IF starts = {} THEN NoSection
    ELSE Section(<<>>, LazyTo(s, TwoWordHeaderEnd(s, SetMin(starts), first, second),
                              TableOrBoldStops(s)))

\* re.search(procedure_pattern, html_content)
procedure_match(s) == TwoWordSection(s, WProcedure, WCodes)

\* re.search(visit_pattern, html_content)
visit_match(s) == TwoWordSection(s, WVisit, WCode)

IsWord(a, lowered) == a.k = "word" /\ Lower(a.s) \in lowered

\* pelvic\s+(?:floor|pain) or physical\s+therapy matched at i: the position
\* after it, or 0
TopicEnd(s, i) ==
    IF /\ i + 2 <= Len(s) /\ IsWs(s[i + 1]) /\ SkipWs(s, i + 1) <= Len(s)
       /\ \/ IsWord(s[i], {"pelvic"}) /\ IsWord(s[SkipWs(s, i + 1)], {"floor", "pain"})
          \/ IsWord(s[i], {"physical"}) /\ IsWord(s[SkipWs(s, i + 1)], {"therapy"})
    THEN SkipWs(s, i + 1) + 1 ELSE 0

\* PFPT ... topic ... (stimulation|therapy|muscles) can be matched from i
PfptCanMatch(s, i) ==
    /\ IsWord(s[i], {"pfpt"})
    /\ \E k \in (i + 1)..Len(s) :
          /\ TopicEnd(s, k) # 0
          /\ \E m \in TopicEnd(s, k)..Len(s) :
                IsWord(s[m], {"stimulation", "therapy", "muscles"})

\* re.findall(pfpt_pattern, html_content): the match runs on over text and
\* tags to the end of the document, so there is at most one
pfpt_matches(s) ==
    LET starts == {i \in 1..Len(s) : PfptCanMatch(s, i)} IN
    IF starts = {} THEN NoSection
    ELSE Section(<<>>, SubSeq(s, SetMin(starts), Len(s)))

\* clinical_content after one more section
AddSection(clinical_content, title, m) ==
    IF ~m.found THEN clinical_content
    ELSE IF clinical_content # <<>>
         THEN clinical_content \o <<Nl, Nl>> \o title \o <<Nl>> \o clean_html_content(m.body)
         ELSE title \o <<Nl>> \o clean_html_content(m.body)

\* clinical_content after pattern 1
PatientSection(m) ==
    IF ~m.found THEN <<>>
    ELSE <<LblPatient, Sp>> \o str_strip(m.name) \o <<Nl, Nl, LblSubjective, Nl>>
         \o clean_html_content(m.body)

\* the seven patterns with the visit code put first
CombinedSectionsVisitFirst(s) ==
    AddSection(
      AddSection(
        AddSection(
          AddSection(
            AddSection(
              AddSection(AddSection(<<>>, <<WVisit, Sp, WCode>>, visit_match(s)),
                         <<LblPatient>>, patient_match(s)),
              <<LblHPI>>, hpi_match(s)),
            <<WPFPT, Sp, WDetails>>, pfpt_matches(s)),
          <<LblExamination>>, exam_match(s)),
        <<LblAssessment>>, assessment_match(s)),
      <<WProcedure, Sp, WCodes>>, procedure_match(s))

\* clinical_content after the seven patterns
CombinedSections(s) ==
    AddSection(
      AddSection(
        AddSection(
          AddSection(
            AddSection(
              AddSection(PatientSection(patient_match(s)),
                         <<LblHPI>>, hpi_match(s)),
              <<WPFPT, Sp, WDetails>>, pfpt_matches(s)),
            <<LblExamination>>, exam_match(s)),
          <<LblAssessment>>, assessment_match(s)),
        <<WProcedure, Sp, WCodes>>, procedure_match(s)),
      <<WVisit, Sp, WCode>>, visit_match(s))

UsableLen   == 100
CellMinLen  == 20
MaxRelevant == 20

clinical_keywords ==
    {"patient", "pelvic", "pain", "therapy", "stimulation", "examination", "assessment", "pfpt"}

\* the lower-cased word without its final colon
Stem(lowered) ==
    CASE lowered = "patient:"     -> "patient"
      [] lowered = "examination:" -> "examination"
      [] lowered = "assessment:"  -> "assessment"
      [] OTHER                    -> lowered

\* any(keyword.lower() in cleaned.lower() for keyword in clinical_keywords)
HasKeyword(cleaned) ==
    \E i \in 1..Len(cleaned) :
       cleaned[i].k = "word" /\ Stem(Lower(cleaned[i].s)) \in clinical_keywords

\* re.findall(table_pattern, html_content) from position i on
RECURSIVE table_matches(_, _)
table_matches(s, i) ==
    LET opens == {j \in i..Len(s) : s[j] = TagTd} IN
    IF opens = {} THEN <<>>
    ELSE LET closes == {j \in (SetMin(opens) + 1)..Len(s) : s[j] = TagEndTd} IN
         IF closes = {} THEN <<>>
         ELSE <<SubSeq(s, SetMin(opens) + 1, SetMin(closes) - 1)>>
              \o table_matches(s, SetMin(closes) + 1)

\* the cell is kept by the fallback
Relevant(cleaned) == StrLen(cleaned) > CellMinLen /\ HasKeyword(cleaned)

\* relevant_content: the cleaned cells that are kept, in order
RECURSIVE relevant_content(_)
relevant_content(cells) ==
    IF cells = <<>> THEN <<>>
    ELSE IF Relevant(str_strip(clean_html_content(Head(cells))))
         THEN <<str_strip(clean_html_content(Head(cells)))>> \o relevant_content(Tail(cells))
         ELSE relevant_content(Tail(cells))

\* '\n'.join(pieces)
RECURSIVE JoinLines(_)
JoinLines(pieces) ==
    IF pieces = <<>> THEN <<>>
    ELSE IF Len(pieces) = 1 THEN pieces[1]
    ELSE pieces[1] \o <<Nl>> \o JoinLines(Tail(pieces))

NoNotesFound == <<Msg("No clinical notes found in the provided HTML content", 52)>>

\* the fallback over the table cells (lines 287-309)
Fallback(relevant) ==
    IF relevant # <<>>
    THEN JoinLines(SubSeq(relevant, 1, IF Len(relevant) < MaxRelevant THEN Len(relevant) ELSE MaxRelevant))
    ELSE NoNotesFound

\* a threshold test that accepts a text of exactly UsableLen characters
LongEnoughInclusive(text) == text # <<>> /\ StrLen(str_strip(text)) >= UsableLen

\* clinical_content and len(clinical_content.strip()) > 100
LongEnough(text) == text # <<>> /\ StrLen(str_strip(text)) > UsableLen

\* lines 282-309
ReturnSections(s, clinical_content) ==
    IF LongEnough(clinical_content) THEN str_strip(clinical_content)
    ELSE Fallback(relevant_content(table_matches(s, 1)))

\* an empty document given the message of the last return
EmptyGivesMessage(html_content) == NoNotesFound

\* if not html_content: return ""
EmptyGives(html_content) == <<>>

extract_clinical_notes_from_html(html_content) ==
    IF html_content = <<>> THEN EmptyGives(html_content)
    ELSE ReturnSections(html_content, CombinedSections(html_content))

-----------------------------------------------------------------------------
(* The documents handed to extract_clinical_notes_from_html                 *)

LenSlack == 1    \* body lengths reach from LenSlack below a threshold to LenSlack above

PatientHeader == <<TagB, LblPatient, TagEndB>>

\* the length of clinical_content before the text of Subjective (pattern 1)
PatientPrefixLen == StrLen(<<LblPatient, Sp, WDoe, Nl, Nl, LblSubjective, Nl>>)

\* the length of clinical_content before the text of Assessment (pattern 5)
AssessPrefixLen == StrLen(<<LblAssessment, Nl>>)

PatientParts ==
    { <<>>,
      PatientHeader \o <<WDoe>>,
      <<TagB, LblPatient, Sp, TagEndB, Sp, WDoe, Sp>>,
      PatientHeader \o <<TagI, WDoe, TagEndI>> }

BareHeader(label) == <<TagB, label, TagEndB>>
SpanHeader(label) == <<TagSpan, TagB, label, TagEndB, TagEndSpan>>
Headers(label)    == {BareHeader(label), SpanHeader(label)}

SubjBodies ==
    { <<Sp, Fill(3), Sp>>, <<Fill(3), Sp, EntLt, Sp, Fill(3)>> }
    \cup { FillSeq(UsableLen - PatientPrefixLen + d) : d \in (0 - LenSlack)..LenSlack }

AssessBodies ==
    { <<>>, <<Sp, Fill(3)>> }
    \cup { FillSeq(UsableLen - AssessPrefixLen + d) : d \in (0 - LenSlack)..LenSlack }

SubjParts   == {<<>>} \cup { h \o b : h \in Headers(LblSubjective), b \in SubjBodies }
AssessParts == {<<>>} \cup { h \o b : h \in Headers(LblAssessment), b \in AssessBodies }

Cell(content) == <<TagTd>> \o content \o <<TagEndTd>>

CellParts ==
    { <<>>,
      Cell(<<WPain, Sp>> \o FillSeq(CellMinLen - 5)),
      Cell(<<WPain, Sp>> \o FillSeq(CellMinLen - 4)),
      Cell(FillSeq(2 * CellMinLen)),
      Cell(<<TagB, WPelvicCap, TagEndB>> \o FillSeq(CellMinLen) \o <<EntGt>>)
        \o Cell(<<Fill(2)>>) \o Cell(<<WTherapy, EntNbsp>> \o FillSeq(CellMinLen)) }

StructuredDocs ==
    { p \o s \o a \o c : p \in PatientParts, s \in SubjParts, a \in AssessParts, c \in CellParts }

SectionDocs ==
    { BareHeader(LblHPI) \o FillSeq(UsableLen) \o BareHeader(LblAssessment) \o <<Fill(3)>>,
      <<TagB, LblHPI, Sp, TagEndB, Fill(3), TagB, LblExamination, TagEndB, Fill(3)>>,
      <<WPFPT, Sp>> \o FillSeq(UsableLen) \o <<Sp, WPelvic, Sp, WFloor, TagB, Fill(3), TagEndB,
        Sp, WStimulation, Sp, Fill(3)>>,
      <<WPFPT, Sp, WPhysical, Nl, WTherapy, Sp, WMuscles>>,
      <<WPFPT, Sp, WPhysical, Sp, WTherapy>> \o FillSeq(UsableLen),
      <<TagB, LblExamination, Sp, Fill(3), TagEndB>> \o FillSeq(UsableLen)
        \o BareHeader(LblPlan) \o <<Fill(3)>>,
      <<TagB, WProcedure, Sp, WCodes, TagEndB>> \o FillSeq(UsableLen) \o <<TagEndTable, Fill(3)>>,
      <<TagB, WVisit, Nl, WCode, TagEndB>> \o FillSeq(UsableLen) \o <<TagB, Fill(2), TagEndB, Fill(3)>>,
      <<TagB, WVisit, WCode, TagEndB>> \o FillSeq(UsableLen),
      PatientHeader \o <<WDoe>> \o SpanHeader(LblSubjective) \o <<Fill(3)>>
        \o BareHeader(LblHPI) \o <<Fill(3)>>
        \o <<TagB, LblExamination, TagEndB, Fill(3)>>
        \o SpanHeader(LblAssessment) \o <<Fill(3)>>
        \o BareHeader(LblTreatment) \o <<Fill(3)>>
        \o <<TagB, WProcedure, Sp, WCodes, TagEndB, Fill(3), TagEndTable>>
        \o <<TagB, WVisit, Sp, WCode, TagEndB, Fill(3)>> }

\* documents whose sections stand in another order than the patterns
ShuffledDocs ==
    { <<TagB, WVisit, Sp, WCode, TagEndB, Fill(3), TagEndTable>>
        \o BareHeader(LblAssessment) \o FillSeq(UsableLen)
        \o BareHeader(LblHPI) \o <<Fill(3)>>,
      <<TagB, WProcedure, Sp, WCodes, TagEndB, Fill(3)>>
        \o BareHeader(LblExamination) \o FillSeq(UsableLen)
        \o PatientHeader \o <<WDoe>> \o SpanHeader(LblSubjective) \o <<Fill(3)>>,
      BareHeader(LblAssessment) \o <<Fill(3)>>
        \o BareHeader(LblPlan) \o <<WPFPT, Sp, WPelvic, Sp, WFloor, Sp, WMuscles>>
        \o FillSeq(UsableLen) }

HtmlInputs == StructuredDocs \cup SectionDocs \cup ShuffledDocs

-----------------------------------------------------------------------------
(* The notes workflow: progress_notes_extractor.extract_progress_notes      *)
(*                                                                          *)
(* The page is the environment.  What it answers is chosen when the code    *)
(* asks: whether a control can be clicked, how many iframes there are, what *)
(* each iframe is when the loop comes to it, whether a close button works.  *)

MaxFrames == 2    \* iframes of the dialog: 0..MaxFrames
FlowSlack == 1    \* extracted lengths reach FlowSlack below and above the threshold

ParsedMinLen  == 100
DisplayMinLen == 100

CouldNotOpen    == <<Msg("Could not open Progress Notes dialog", 36)>>
\* a placeholder long enough to pass for notes
NoneExtractableLong ==
    <<Msg("No clinical notes could be extracted from ECW Progress Notes", 60)>> \o FillSeq(41)

NoneExtractable == <<Msg("No clinical notes could be extracted from ECW Progress Notes", 60)>>
NoNotesExtracted == <<Msg("No clinical notes extracted", 27)>>
\* f"Error extracting Progress Notes: {e}"
ErrorExtracting(e) == <<Msg("Error extracting Progress Notes: ", 33)>> \o e

\* str(e) of the exceptions the page can raise
ExceptionTexts ==
    { <<>>,
      FillSeq(MinNotesLen - 33 - 1),
      FillSeq(MinNotesLen - 33),
      <<Msg("Target page, context or browser has been closed", 47)>> }

\* an iframe: its attributes, how its content can be reached, its content
Frame(id, name, access, doc) == [id |-> id, name |-> name, access |-> access, doc |-> doc]
NoFrame == Frame("", "", "", <<>>)

\* name.lower() of the names of the model
LowerName(name) ==
    CASE name = "progressNotes" -> "progressnotes"
      [] name = "progNoteFrame" -> "prognoteframe"
      [] OTHER                  -> "no name"

\* needle in haystack, for the needles of line 109
InText(needle, haystack) ==
    CASE needle = "ProgNote" -> haystack = "ProgNoteViwerFrame"
      [] needle = "progNote" -> haystack = "progNoteFrame"
      [] needle = "progress" -> haystack \in {"progressNotes", "progressnotes"}
      [] OTHER               -> FALSE

\* a test that skips no iframe
SkippedNone(f) == FALSE

\* line 109: the iframe is clearly not the progress notes
Skipped(f) ==
    /\ ~InText("ProgNote", f.id)
    /\ ~InText("progNote", LowerName(f.name))
    /\ ~InText("progress", LowerName(f.name))

clinical_markers ==
    { <<WTestComma, Sp, WManu>>, <<LblPatient>>, <<LblHPI>>, <<WPFPT>>, <<LblSubjective>>,
      <<LblAssessment>>, <<LblExamination>>, <<WPelvicCap, Sp, WPainCap>>,
      <<WPhysical, Sp, WTherapy>>, <<WElectrical, Sp, WStimulation>> }

\* marker in iframe_html
Contains(marker, text) ==
    \E i \in 1..Len(text) :
       i + Len(marker) - 1 <= Len(text) /\ SubSeq(text, i, i + Len(marker) - 1) = marker

\* found_markers is not empty
HasMarker(text) == \E marker \in clinical_markers : Contains(marker, text)

\* format_notes: the escape sequences replaced, the result stripped
format_notes(notes_text) ==
    IF notes_text = <<>> THEN <<>>
    ELSE str_strip([i \in 1..Len(notes_text) |->
                      IF notes_text[i].k = "esc" THEN Nl ELSE notes_text[i]])

\* a test that takes a text of exactly ParsedMinLen characters
ParsedUsableInclusive(parsed_notes) ==
    parsed_notes # <<>> /\ StrLen(parsed_notes) >= ParsedMinLen

\* parsed_notes and len(parsed_notes) > 100
ParsedUsable(parsed_notes) == parsed_notes # <<>> /\ StrLen(parsed_notes) > ParsedMinLen

\* lines 346-353: the notes taken from the content of the iframe
NotesOf(clinical_content, parsed_notes) ==
    IF ParsedUsable(parsed_notes) THEN parsed_notes ELSE clinical_content

\* a return value that reports a dialog left open
ReturnedOnlyIfClosed(notes, dialog_closed) ==
    IF ~dialog_closed THEN ErrorExtracting(<<>>)
    ELSE IF notes # <<>> /\ StrLen(notes) > DisplayMinLen THEN format_notes(notes)
    ELSE NoNotesExtracted

\* lines 365-398: the value returned after the dialog was closed or not
ReturnedNotes(notes, dialog_closed) ==
    IF notes # <<>> /\ StrLen(notes) > DisplayMinLen THEN format_notes(notes)
    ELSE NoNotesExtracted

\* a button search that always reports a click
find_any_button(open) == TRUE

\* find_progress_notes_button: a candidate selector was clicked, or a button
\* with "prog" in its text
find_progress_notes_button(open) == open \in {"selector", "fallback"}

\* the documents an iframe can hold
FrameDocs ==
    { <<>>,
      <<TagB, Fill(5), TagEndB>> \o FillSeq(UsableLen),
      <<WPelvic, Sp, WPain, Sp>> \o FillSeq(UsableLen),
      <<WPelvicCap, Sp, WPainCap, Sp>> \o FillSeq(UsableLen),
      BareHeader(LblAssessment) \o FillSeq(UsableLen - AssessPrefixLen + 1),
      BareHeader(LblAssessment) \o FillSeq(UsableLen - AssessPrefixLen),
      <<LblHPI, Sp, Fill(3)>>,
      <<Sp, LblSubjective, Esc>> \o FillSeq(UsableLen) \o <<Nl>> }
    \cup { Cell(<<WPFPT, Sp>> \o FillSeq(ParsedMinLen - 5 + d)) :
             d \in (0 - FlowSlack)..FlowSlack }

\* what the loop can meet at an index
FrameKinds ==
    { Frame("No id", "No name", "ok", BareHeader(LblAssessment) \o FillSeq(UsableLen)),
      Frame("No id", "progNoteFrame", "ok", BareHeader(LblAssessment) \o FillSeq(UsableLen)),
      Frame("ProgNoteViwerFrame", "No name", "no_frame", <<>>),
      Frame("No id", "progressNotes", "no_content", <<>>) }
    \cup { Frame("ProgNoteViwerFrame", "No name", "ok", d) : d \in FrameDocs }
    \cup { Frame("No id", "progressNotes", "ok", <<LblPatient, Sp>> \o FillSeq(UsableLen)) }

Event(op, i, f) == [op |-> op, i |-> i, f |-> f]

NoContent == [some |-> FALSE, text |-> <<>>]
Content(text) == [some |-> TRUE, text |-> text]

-----------------------------------------------------------------------------
(* The decoded payloads handed to the final parse (lines 114-162)           *)

MaxShapeLen == 2    \* entries of a sequence of a payload: 0..MaxShapeLen

ShapeEntries == {OfficeValue, PyDict([k \in {"cptCode"} |-> PyStr(C91122)])}

ShapeLists == {PyList(l) : l \in SeqsUpTo(ShapeEntries, MaxShapeLen)}

\* a member of an object: absent, or present with a value
Absent     == [has |-> FALSE, v |-> PyNone]
Present(v) == [has |-> TRUE, v |-> v]

MemberChoices == {Absent} \cup {Present(v) : v \in ShapeLists \cup {PyNum(<<"5">>), PyNone}}

ObjectOf(a, b, r) ==
    PyDict([k \in {x \in {"cpt_codes", "codes", "result"} :
                     \/ x = "cpt_codes" /\ a.has
                     \/ x = "codes" /\ b.has
                     \/ x = "result" /\ r} |->
              CASE k = "cpt_codes" -> a.v
                [] k = "codes"     -> b.v
                [] OTHER           -> PyStr(M25)])

Payloads ==
    {PyNone, PyList(<<PyStr(C99213)>>)}
    \cup ShapeLists
    \cup {ObjectOf(a, b, r) : a \in MemberChoices, b \in MemberChoices, r \in BOOLEAN}

-----------------------------------------------------------------------------
(* The population of the billing grid: populate_cpt_and_icd_codes           *)
(*                                                                          *)
(* The page is the environment: which selector shows the field of the new   *)
(* row, whether a modifier field of a row is shown, what the ICD section    *)
(* answers.  The grid is the one add_cpt_codes_to_ecw_interface relies on:  *)
(* empty at first, one more row for each code entered and saved with Tab.   *)

MaxRecords == 2    \* records in the list returned by the prediction: 1..MaxRecords

\* a coding record
Rec(code, m1, m2) ==
    PyDict([k \in {"code", "modifier1", "modifier2", "description"} |->
              CASE k = "code"        -> PyStr(code)
                [] k = "modifier1"   -> PyStr(m1)
                [] k = "modifier2"   -> PyStr(m2)
                [] k = "description" -> PyStr(Visit)])

RecordKinds ==
    { Rec(C99213, M25, <<"5", "9">>), Rec(C91122, <<>>, <<>>), Rec(<<>>, M25, <<>>) }

\* what get_predicted_cpt_codes can return: None, or a list of records
Predictions ==
    { [site |-> "exception", val |-> PyNone],
      [site |-> "no_valid_codes", val |-> PyNone] }
    \cup { [site |-> "codes", val |-> PyList(l)] :
             l \in SeqsUpTo(RecordKinds, MaxRecords) \ {<<>>} }

\* a row of the grid made by the code of record rec
Row(code, rec) == [code |-> code, m1 |-> EmptyStr, m2 |-> EmptyStr, rec |-> rec]

\* something done to the page for record i; row is the row it was aimed at
Did(op, i, row, what) == [op |-> op, i |-> i, row |-> row, what |-> what]

\* the step after the records, whatever the prediction was
AfterCptOnlyWithCodes(predicted) == IF Truthy(predicted) THEN "icd" ELSE "done"

\* line 472 follows the if of lines 461-469 on both of its branches
AfterCpt(predicted) == "icd"

\* a missing field of the new row ends the loop
AfterSkipAbort(i, n) == n + 1

\* line 275: continue
AfterSkip(i, n) == i + 1

\* line 278: current_row = i + 1, i counted from 0
CurrentRow(i) == i

\* Tab after the code: the grid gets the row of the code (lines 254-263);
\* made tells whether the grid makes a row of an empty entry
GridAfterCode(grid, cpt_code, i, made) ==
    IF Truthy(cpt_code) \/ made THEN Append(grid, Row(cpt_code, i)) ELSE grid

\* a modifier field of row current_row is shown and enabled
FieldShown(grid, current_row, shown) == shown /\ current_row <= Len(grid)

\* lines 282-320: the M1 modifier
GridAfterM1(grid, modifier1, current_row, shown) ==
    IF Truthy(modifier1) /\ FieldShown(grid, current_row, shown)
    THEN [grid EXCEPT ![current_row].m1 = modifier1] ELSE grid

\* lines 323-361: the M2 modifier
GridAfterM2(grid, modifier2, current_row, shown) ==
    IF Truthy(modifier2) /\ FieldShown(grid, current_row, shown)
    THEN [grid EXCEPT ![current_row].m2 = modifier2] ELSE grid

\* what lines 282-361 do to the page for one modifier
ModifierLog(op, modifier, i, grid, shown) ==
    IF ~Truthy(modifier) THEN <<>>
    ELSE <<Did(op, i, CurrentRow(i),
               IF FieldShown(grid, CurrentRow(i), shown) THEN "typed" ELSE "not_found")>>

-----------------------------------------------------------------------------
(* Initial states: one call of the parser, one entry conversion, one run of  *)
(* get_predicted_cpt_codes, one call of the HTML extractor, one run of       *)
(* extract_progress_notes, one final parse of a payload, or one run of       *)
(* populate_cpt_and_icd_codes                                               *)

Unset == Returned(PyNone)

ParserIdle  == p_pc = "off" /\ p_in = NoText /\ p_out = Unset
NormIdle    == n_pc = "off" /\ n_in = PyNone /\ n_out = Unset
PredictIdle ==
    /\ pc = "off"
    /\ clinical_notes = NoNotes
    /\ attempt = 0
    /\ bedrock_prompt = <<>>
    /\ predicted_codes_text = NoText
    /\ broke = FALSE
    /\ calls = 0
    /\ history = <<>>
    /\ parsed_text = NoText
    /\ ret = PyNone
    /\ retSite = "none"

HtmlIdle    == h_pc = "off" /\ h_in = <<>> /\ h_out = <<>>

FlowIdle ==
    /\ w_pc = "off" /\ w_n = 0 /\ w_i = 0
    /\ w_content = NoContent /\ w_notes = <<>> /\ w_closed = FALSE
    /\ w_log = <<>> /\ w_ret = <<>> /\ w_site = "none"

ShapeIdle   == s_pc = "off" /\ s_in = Unset /\ s_out = [site |-> "none", val |-> PyNone]

PopulateIdle ==
    /\ u_pc = "off" /\ u_pred = [site |-> "none", val |-> PyNone]
    /\ u_i = 0 /\ u_grid = <<>> /\ u_log = <<>>

OthersIdle  == HtmlIdle /\ FlowIdle /\ ShapeIdle /\ PopulateIdle

ParserInit ==
    /\ p_pc = "ready" /\ p_out = Unset
    /\ \/ p_in = NoText
       \/ \E b \in SeqsUpTo(ProseAlphabet, MaxBefore), c \in Cores,
             a \in SeqsUpTo(ProseAlphabet, MaxAfter) : p_in = ParserInput(b, c, a)
    /\ NormIdle /\ PredictIdle /\ OthersIdle

NormInit ==
    /\ n_pc = "ready" /\ n_in \in RawEntries /\ n_out = Unset
    /\ ParserIdle /\ PredictIdle /\ OthersIdle

PredictInit ==
    /\ pc = "start"
    /\ clinical_notes \in NotesInputs
    /\ attempt = 0
    /\ bedrock_prompt = <<>>
    /\ predicted_codes_text = NoText
    /\ broke = FALSE
    /\ calls = 0
    /\ history = <<>>
    /\ parsed_text = NoText
    /\ ret = PyNone
    /\ retSite = "none"
    /\ ParserIdle /\ NormIdle /\ OthersIdle

HtmlInit ==
    /\ h_pc = "ready" /\ h_in \in HtmlInputs /\ h_out = <<>>
    /\ ParserIdle /\ NormIdle /\ PredictIdle /\ FlowIdle /\ ShapeIdle /\ PopulateIdle

FlowInit ==
    /\ w_pc = "idle" /\ w_n = 0 /\ w_i = 0
    /\ w_content = NoContent /\ w_notes = <<>> /\ w_closed = FALSE
    /\ w_log = <<>> /\ w_ret = <<>> /\ w_site = "none"
    /\ ParserIdle /\ NormIdle /\ PredictIdle /\ HtmlIdle /\ ShapeIdle /\ PopulateIdle

ShapeInit ==
    /\ s_pc = "ready" /\ s_in \in {Returned(v) : v \in Payloads}
    /\ s_out = [site |-> "none", val |-> PyNone]
    /\ ParserIdle /\ NormIdle /\ PredictIdle /\ HtmlIdle /\ FlowIdle /\ PopulateIdle

PopulateInit ==
    /\ u_pc = "start" /\ u_pred \in Predictions
    /\ u_i = 0 /\ u_grid = <<>> /\ u_log = <<>>
    /\ ParserIdle /\ NormIdle /\ PredictIdle /\ HtmlIdle /\ FlowIdle /\ ShapeIdle

Init ==
    \/ ParserInit \/ NormInit \/ PredictInit \/ HtmlInit \/ FlowInit \/ ShapeInit
    \/ PopulateInit

-----------------------------------------------------------------------------
(* Actions *)

\* one call parse_json_response(p_in)
Parse ==
    /\ p_pc = "ready"
    /\ p_out' = parse_json_response(p_in)
    /\ p_pc' = "done"
    /\ UNCHANGED <<p_in, nvars, gvars, ovars>>

\* one pass of the body of  for item in parsed_json
Normalize ==
    /\ n_pc = "ready"
    /\ n_out' = ConvertItem(n_in)
    /\ n_pc' = "done"
    /\ UNCHANGED <<n_in, pvars, gvars, ovars>>

\* return None from get_predicted_cpt_codes at the named place
ReturnNone(site) ==
    /\ pc' = "done"
    /\ ret' = PyNone
    /\ retSite' = site

\* lines 26-57: the check of the notes, the prompt template
Start ==
    /\ pc = "start"
    /\ IF NotesTooShort(clinical_notes)
       THEN /\ ReturnNone("insufficient_input")
            /\ UNCHANGED bedrock_prompt
       ELSE /\ \E src \in {"prompt.txt", "default"} : bedrock_prompt' = BasePrompt(src)
            /\ pc' = "loop"
            /\ UNCHANGED <<ret, retSite>>
    /\ UNCHANGED <<clinical_notes, attempt, predicted_codes_text, broke, calls,
                   history, parsed_text, pvars, nvars, ovars>>

\* code_count >= min_expected_codes
Sufficient(code_count) == code_count >= min_expected_codes

\* a range one pass too long
HasNextPassOffByOne(a) == a + 1 <= max_retries

\* the for statement: another pass follows the pass with index `a`
HasNextPass(a) == a + 1 < max_retries

\* if attempt < max_retries - 1
RetryLeft(a) == a < max_retries - 1

\* where the for statement goes after the pass with index a
AfterPass(a) == IF HasNextPass(a) THEN "loop" ELSE "after_loop"

\* a pass that asks for more codes after any count below the minimum
DecideEscalatingAlways(cc) ==
    IF cc.raised
    THEN /\ ReturnNone("exception")
         /\ UNCHANGED <<attempt, bedrock_prompt, broke>>
    ELSE IF Sufficient(cc.n)
    THEN /\ broke' = TRUE
         /\ pc' = "after_loop"
         /\ UNCHANGED <<attempt, bedrock_prompt, ret, retSite>>
    ELSE /\ bedrock_prompt' =
              IF RetryLeft(attempt)
              THEN Append(bedrock_prompt, AtLeastInstruction(cc.n))
              ELSE bedrock_prompt
         /\ pc' = AfterPass(attempt)
         /\ attempt' = attempt + 1
         /\ UNCHANGED <<broke, ret, retSite>>

\* lines 85-103 of a pass: cc is the outcome of counting the probe parse
Decide(cc) ==
    IF cc.raised
    THEN \* except Exception (line 164)
         /\ ReturnNone("exception")
         /\ UNCHANGED <<attempt, bedrock_prompt, broke>>
    ELSE IF Sufficient(cc.n)
    THEN \* break
         /\ broke' = TRUE
         /\ pc' = "after_loop"
         /\ UNCHANGED <<attempt, bedrock_prompt, ret, retSite>>
    ELSE /\ bedrock_prompt' =
              IF cc.n > 0 /\ RetryLeft(attempt)
              THEN Append(bedrock_prompt, AtLeastInstruction(cc.n))
              ELSE bedrock_prompt
         /\ pc' = AfterPass(attempt)
         /\ attempt' = attempt + 1
         /\ UNCHANGED <<broke, ret, retSite>>

\* the count of a probe whose call raised is never computed
ProbeCount(call) == IF call.raised THEN [raised |-> TRUE, n |-> 0] ELSE CodeCount(call.val)

\* lines 73-103 of a pass: call is the outcome of the probe parse of resp
Probe(resp, call, cc) ==
    /\ history' = Append(history,
           [prompt |-> bedrock_prompt, response |-> resp,
            probed |-> TRUE, probe |-> call, count |-> cc.n])
    /\ Decide(cc)

ProbeText(resp, call) == Probe(resp, call, ProbeCount(call))

\* lines 59-103: one pass of the retry loop with the service answering resp
Pass(resp) ==
    /\ calls' = calls + 1
    /\ predicted_codes_text' = resp
    /\ IF ~HasText(resp)
       THEN \* continue
            /\ history' = Append(history,
                   [prompt |-> bedrock_prompt, response |-> resp,
                    probed |-> FALSE, probe |-> Unset, count |-> 0])
            /\ pc' = AfterPass(attempt)
            /\ attempt' = attempt + 1
            /\ UNCHANGED <<bedrock_prompt, broke, ret, retSite>>
       ELSE ProbeText(resp, parse_json_response(resp))

Attempt ==
    /\ pc = "loop"
    /\ \E resp \in ServiceResponses : Pass(resp)
    /\ UNCHANGED <<clinical_notes, parsed_text, pvars, nvars, ovars>>

\* the count recorded for the i-th call, 0 when it gave no text
CountAt(i) == IF HasText(history[i].response) /\ history[i].probed THEN history[i].count ELSE 0

\* the call whose answer counted most, the earliest among equals
BestCall ==
    CHOOSE i \in 1..Len(history) :
        /\ \A j \in 1..Len(history) : CountAt(j) <= CountAt(i)
        /\ \A j \in 1..(i - 1) : CountAt(j) < CountAt(i)

\* a test that fails only when no call at all gave text
NoResponseAtAll(text) == \A i \in 1..Len(history) : ~HasText(history[i].response)

\* if not predicted_codes_text  (line 105)
NoResponse(text) == ~HasText(text)

\* a final parse of the answer that counted most instead of the latest
BestTextToParse == IF history = <<>> THEN predicted_codes_text ELSE history[BestCall].response

\* the text handed to the final parse (line 112)
TextToParse == predicted_codes_text

\* f is the outcome of the final parse of text
ReturnFinal(text, f) ==
    /\ parsed_text' = text
    /\ pc' = "done"
    /\ ret' = f.val
    /\ retSite' = f.site

\* lines 105-167: after the loop
Finish ==
    /\ pc = "after_loop"
    /\ IF NoResponse(predicted_codes_text)
       THEN /\ ReturnNone("no_response")
            /\ UNCHANGED parsed_text
       ELSE ReturnFinal(TextToParse, FinalParse(TextToParse))
    /\ UNCHANGED <<clinical_notes, attempt, bedrock_prompt, predicted_codes_text,
                   broke, calls, history, pvars, nvars, ovars>>

\* one call extract_clinical_notes_from_html(h_in)
Extract ==
    /\ h_pc = "ready"
    /\ h_out' = extract_clinical_notes_from_html(h_in)
    /\ h_pc' = "done"
    /\ UNCHANGED <<h_in, pvars, nvars, gvars, wvars, svars, uvars>>

\* return from extract_progress_notes at the named place
ReturnFlow(value, site) ==
    /\ w_ret' = value
    /\ w_site' = site
    /\ w_pc' = "done"

\* page.wait_for_timeout(2000) of line 332: it returns, or raises e
Settles ==
    {[raised |-> FALSE, e |-> <<>>]} \cup {[raised |-> TRUE, e |-> t] : t \in ExceptionTexts}

\* lines 327-339 and 82-92: the dialog is opened, the iframes are listed
OpenWith(open, settle) ==
    IF ~find_progress_notes_button(open)
    THEN /\ ReturnFlow(CouldNotOpen, "dialog_not_found")
         /\ w_log' = Append(w_log, Event(open, 0, NoFrame))
         /\ UNCHANGED <<w_n, w_i>>
    ELSE IF settle.raised
    THEN /\ ReturnFlow(ErrorExtracting(settle.e), "exception")
         /\ w_log' = Append(w_log, Event(open, 0, NoFrame))
         /\ UNCHANGED <<w_n, w_i>>
    ELSE /\ \E n \in 0..MaxFrames : w_n' = n
         /\ w_i' = 1
         /\ w_pc' = "scanning"
         /\ w_log' = w_log \o <<Event(open, 0, NoFrame), Event("enumerate", 0, NoFrame)>>
         /\ UNCHANGED <<w_ret, w_site>>

OpenDialog ==
    /\ w_pc = "idle"
    /\ \E open \in {"selector", "fallback", "none"} :
          \E settle \in Settles : OpenWith(open, settle)
    /\ UNCHANGED <<w_content, w_notes, w_closed, pvars, nvars, gvars, hvars, svars, uvars>>

\* lines 94-248: one pass of the loop over the iframes, f being the iframe
Examine(f) ==
    IF Skipped(f)
    THEN /\ w_log' = Append(w_log, Event("skip", w_i, f))
         /\ w_i' = w_i + 1
         /\ UNCHANGED <<w_pc, w_content>>
    ELSE IF f.access = "no_frame"
    THEN /\ w_log' = Append(w_log, Event("no_frame", w_i, f))
         /\ w_i' = w_i + 1
         /\ UNCHANGED <<w_pc, w_content>>
    ELSE IF f.access = "no_content"
    THEN /\ w_log' = Append(w_log, Event("no_content", w_i, f))
         /\ w_i' = w_i + 1
         /\ UNCHANGED <<w_pc, w_content>>
    ELSE /\ w_log' = Append(w_log, Event("read", w_i, f))
         /\ IF HasMarker(f.doc)
            THEN \* break
                 /\ w_content' = Content(f.doc)
                 /\ w_pc' = "parse"
                 /\ UNCHANGED w_i
            ELSE /\ w_i' = w_i + 1
                 /\ UNCHANGED <<w_pc, w_content>>

ScanFrame ==
    /\ w_pc = "scanning"
    /\ IF w_i > w_n
       THEN /\ w_pc' = "parse"
            /\ UNCHANGED <<w_i, w_content, w_log>>
       ELSE \E f \in FrameKinds : Examine(f)
    /\ UNCHANGED <<w_n, w_notes, w_closed, w_ret, w_site, pvars, nvars, gvars, hvars, svars, uvars>>

\* lines 341-359
ParseNotes ==
    /\ w_pc = "parse"
    /\ IF w_content.some /\ w_content.text # <<>>
       THEN /\ w_notes' = NotesOf(w_content.text, extract_clinical_notes_from_html(w_content.text))
            /\ w_log' = Append(w_log, Event("extract", 0, NoFrame))
       ELSE /\ w_notes' = NoneExtractable
            /\ UNCHANGED w_log
    /\ w_pc' = "close"
    /\ UNCHANGED <<w_n, w_i, w_content, w_closed, w_ret, w_site, pvars, nvars, gvars, hvars, svars, uvars>>

\* close_progress_notes_dialog: the close candidates, else the Escape key
CloseDialog ==
    /\ w_pc = "close"
    /\ \E how \in {"button", "escape", "none"} :
          /\ w_log' = w_log \o
                (IF how = "button" THEN <<Event("close_button", 0, NoFrame)>>
                 ELSE <<Event("close_button", 0, NoFrame), Event("escape", 0, NoFrame)>>)
          /\ w_closed' = (how # "none")
    /\ w_pc' = "display"
    /\ UNCHANGED <<w_n, w_i, w_content, w_notes, w_ret, w_site, pvars, nvars, gvars, hvars, svars, uvars>>

\* lines 364-398
ReturnNotes ==
    /\ w_pc = "display"
    /\ ReturnFlow(ReturnedNotes(w_notes, w_closed),
                  IF ReturnedNotes(w_notes, w_closed) = NoNotesExtracted THEN "no_notes" ELSE "notes")
    /\ UNCHANGED <<w_n, w_i, w_content, w_notes, w_closed, w_log, pvars, nvars, gvars, hvars, svars, uvars>>

\* lines 114-162 applied to the payload s_in
MapShape ==
    /\ s_pc = "ready"
    /\ s_out' = AfterFinalParse(s_in)
    /\ s_pc' = "done"
    /\ UNCHANGED <<s_in, pvars, nvars, gvars, hvars, wvars, uvars>>

\* lines 458-470 and 197-203: the prediction is taken and the loop entered
StartPopulation ==
    /\ u_pc = "start"
    /\ IF Truthy(u_pred.val) /\ PyLen(u_pred.val).n > 0
       THEN u_pc' = "cpt" /\ u_i' = 1
       ELSE u_pc' = AfterCpt(u_pred.val) /\ UNCHANGED u_i
    /\ UNCHANGED <<u_pred, u_grid, u_log, pvars, nvars, gvars, hvars, wvars, svars>>

\* lines 209-376: one pass of the loop.  sel is the selector that showed the
\* field of the new row ("none": neither did), made, m1 and m2 are what the
\* page answers
ProcessRecord(cpt_data, n, sel, made, m1, m2) ==
    IF sel = "none"
    THEN /\ u_log' = Append(u_log, Did("skip", u_i, 0, "not_found"))
         /\ u_i' = AfterSkip(u_i, n)
         /\ UNCHANGED u_grid
    ELSE /\ u_log' = u_log
              \o <<Did("code", u_i,
                       IF Len(GridAfterCode(u_grid, DictGet(cpt_data, "code", EmptyStr), u_i, made))
                             > Len(u_grid)
                       THEN Len(u_grid) + 1 ELSE 0,
                       sel)>>
              \o ModifierLog("m1", DictGet(cpt_data, "modifier1", EmptyStr), u_i,
                             GridAfterCode(u_grid, DictGet(cpt_data, "code", EmptyStr), u_i, made), m1)
              \o ModifierLog("m2", DictGet(cpt_data, "modifier2", EmptyStr), u_i,
                             GridAfterCode(u_grid, DictGet(cpt_data, "code", EmptyStr), u_i, made), m2)
         /\ u_grid' =
              GridAfterM2(
                GridAfterM1(GridAfterCode(u_grid, DictGet(cpt_data, "code", EmptyStr), u_i, made),
                            DictGet(cpt_data, "modifier1", EmptyStr), CurrentRow(u_i), m1),
                DictGet(cpt_data, "modifier2", EmptyStr), CurrentRow(u_i), m2)
         /\ u_i' = u_i + 1

\* add_cpt_codes_to_ecw_interface: the loop of line 208
PopulateRecord ==
    /\ u_pc = "cpt"
    /\ IF u_i > Len(u_pred.val.items)
       THEN /\ u_pc' = AfterCpt(u_pred.val)
            /\ UNCHANGED <<u_i, u_grid, u_log>>
       ELSE /\ \E sel \in {"first", "second", "none"} :
               \E made \in BOOLEAN, m1 \in BOOLEAN, m2 \in BOOLEAN :
                  ProcessRecord(u_pred.val.items[u_i], Len(u_pred.val.items), sel, made, m1, m2)
            /\ UNCHANGED u_pc
    /\ UNCHANGED <<u_pred, pvars, nvars, gvars, hvars, wvars, svars>>

\* line 472 and add_icd_code: the fixed ICD code
AddIcd ==
    /\ u_pc = "icd"
    /\ \E outcome \in {"entered", "no_field", "no_section", "raises"} :
          u_log' = Append(u_log, Did("icd", 0, 0, outcome))
    /\ u_pc' = "done"
    /\ UNCHANGED <<u_pred, u_i, u_grid, pvars, nvars, gvars, hvars, wvars, svars>>

Next ==
    \/ Parse \/ Normalize \/ Start \/ Attempt \/ Finish \/ Extract
    \/ OpenDialog \/ ScanFrame \/ ParseNotes \/ CloseDialog \/ ReturnNotes
    \/ MapShape
    \/ StartPopulation \/ PopulateRecord \/ AddIcd

Spec == Init /\ [][Next]_vars

-----------------------------------------------------------------------------
(* Vocabulary of the properties *)

ThisRun == pc # "off"
Returns == pc = "done"
LastCall == history[Len(history)]

\* the entries of a decoded payload, by shape
EntriesOf(v) ==
    IF v.t = "list" THEN v.items
    ELSE IF v.t = "dict" /\ "cpt_codes" \in DOMAIN v.map /\ v.map["cpt_codes"].t = "list"
         THEN v.map["cpt_codes"].items
    ELSE IF v.t = "dict" /\ "cpt_codes" \notin DOMAIN v.map
                         /\ "codes" \in DOMAIN v.map /\ v.map["codes"].t = "list"
         THEN v.map["codes"].items
    ELSE <<>>

HasTruthy(e, k) == k \in DOMAIN e.map /\ Truthy(e.map[k])

\* the code of a mapping: the first truthy value under cpt, cptCode, code
FirstCode(e) ==
    IF HasTruthy(e, "cpt") THEN e.map["cpt"]
    ELSE IF HasTruthy(e, "cptCode") THEN e.map["cptCode"]
    ELSE IF HasTruthy(e, "code") THEN e.map["code"]
    ELSE PyStr(<<>>)

Blank(chars) == \A i \in 1..Len(chars) : chars[i] = " "

\* a mapping whose code, written out and trimmed, is empty
LacksCode(e) ==
    e.t = "dict" /\ FirstCode(e).t = "str" /\ Blank(FirstCode(e).chars)

\* the answer decodes to a non-empty array of mappings
IsEntryList(resp) ==
    /\ HasText(resp)
    /\ LET v == parse_json_response(resp).val IN
       /\ v.t = "list" /\ Len(v.items) > 0
       /\ \A i \in 1..Len(v.items) : v.items[i].t = "dict"

NumEntries(resp)  == Len(EntriesOf(parse_json_response(resp).val))
NumLacking(resp)  ==
    LET es == EntriesOf(parse_json_response(resp).val) IN
    Cardinality({i \in 1..Len(es) : LacksCode(es[i])})

\* the acceptance policy: enough entries, none without its code
Acceptable(resp) ==
    HasText(resp) /\ NumEntries(resp) >= 4 /\ NumLacking(resp) = 0

-----------------------------------------------------------------------------
\* C1: notes that are absent, empty or shorter than 50 characters once trimmed
\* make the run fail as insufficient input with no service call at all; notes
\* of trimmed length 50 or more pass the check.
C1_InsufficientInput ==
    (ThisRun /\ pc # "start") =>
        IF clinical_notes.none \/ clinical_notes.body < 50
        THEN /\ Returns /\ retSite = "insufficient_input" /\ ret = PyNone
             /\ calls = 0 /\ history = <<>>
        ELSE retSite # "insufficient_input"

\* notes of raw length 50 whose trimmed length is 49 were refused
C1_Witness ==
    /\ Returns /\ retSite = "insufficient_input"
    /\ ~clinical_notes.none
    /\ clinical_notes.body = 49 /\ clinical_notes.lead + clinical_notes.trail >= 1

\* C2: retrying stops exactly at the first acceptable answer (no call after
\* it), and the loop does not stop before max_retries calls on an answer that
\* has too few entries or an entry without its code.
C2_StopsAtFirstAcceptable ==
    (ThisRun /\ history # <<>>) =>
        /\ \A i \in 1..(Len(history) - 1) : ~Acceptable(history[i].response)
        /\ (pc \in {"after_loop", "done"} /\ IsEntryList(LastCall.response)
               /\ ~Acceptable(LastCall.response))
             => calls = 3

\* C3: when every attempt returns text and every answer is deficient, exactly
\* max_retries calls are made and the result is built from the last answer.
C3_DeficientUsesLast ==
    (Returns /\ history # <<>>
        /\ \A i \in 1..Len(history) :
              IsEntryList(history[i].response) /\ ~Acceptable(history[i].response))
      => /\ calls = 3
         /\ retSite # "no_response"
         /\ parsed_text = LastCall.response

\* C4: a final attempt without text makes the result the NoResponse failure,
\* whatever earlier attempts returned; a last executed attempt with text never
\* ends as NoResponse.
C4_NoResponse ==
    (Returns /\ history # <<>>) =>
        /\ (Len(history) = 3 /\ ~(LastCall.response.some /\ Len(LastCall.response.text) > 0))
             => (retSite = "no_response" /\ ret = PyNone)
        /\ (LastCall.response.some /\ Len(LastCall.response.text) > 0)
             => retSite # "no_response"

\* the third attempt gave no text after the first had given two usable entries
C4_Witness ==
    /\ Returns /\ retSite = "no_response" /\ Len(history) = 3
    /\ IsEntryList(history[1].response) /\ NumLacking(history[1].response) = 0
    /\ ~HasText(history[3].response)

\* C5: the answer parsed in the end is that of the latest attempt, also when an
\* earlier attempt had more entries, none of them without its code.
C5_LatestOnly ==
    (Returns /\ retSite \in {"codes", "parse_failure", "no_valid_codes"}) =>
        /\ history # <<>>
        /\ parsed_text = LastCall.response
        /\ retSite = "codes" => Len(ret.items) = NumEntries(LastCall.response)

\* three entries first, one entry last: the single entry is what is returned
C5_Witness ==
    /\ Returns /\ retSite = "codes" /\ Len(history) = 3
    /\ NumEntries(history[1].response) = 3 /\ NumLacking(history[1].response) = 0
    /\ NumEntries(history[3].response) = 1
    /\ Len(ret.items) = 1

\* the steps a run can still take at most: a measure of termination
StepsLeft ==
    CASE pc = "start"      -> 5
      [] pc = "loop"       -> 4 - attempt
      [] pc = "after_loop" -> 1
      [] OTHER             -> 0

\* a pass in which the service gives no text
SilentPass ==
    /\ pc = "loop"
    /\ NoText \in ServiceResponses
    /\ Pass(NoText)
    /\ UNCHANGED <<clinical_notes, parsed_text, pvars, nvars, ovars>>

\* C6: the loop ends (every step of a run lowers a measure that is never
\* negative, so no run takes more than five steps, and before and inside the
\* loop a step can always be taken), every pass makes exactly one service
\* call, and a run that passed the check of the notes makes between 1 and
\* max_retries calls.
C6_BoundedCalls ==
    /\ [][(pc = "loop" => calls' = calls + 1) /\ (pc # "loop" => calls' = calls)]_vars
    /\ [](calls <= 3)
    /\ []((Returns /\ retSite # "insufficient_input") => calls >= 1)
    /\ [][ThisRun => StepsLeft' < StepsLeft]_vars
    /\ [](StepsLeft >= 0)
    /\ [](pc \in {"start", "loop"} => (ENABLED Start \/ ENABLED SilentPass))

\* a run that used all three calls
C6_Witness == Returns /\ calls = 3 /\ retSite = "codes"

-----------------------------------------------------------------------------
(* Vocabulary of the parser's properties *)

ParserReturned == p_pc = "done"

\* some open is followed, somewhere later, by a close
SpanExists(s, open, close) ==
    \E i \in 1..Len(s) : \E j \in (i+1)..Len(s) : s[i].k = open /\ s[j].k = close

\* s[i..j] is the leftmost, shortest span from an open to a close
IsFirstShortest(s, i, j, open, close) ==
    /\ i < j /\ s[i].k = open /\ s[j].k = close
    /\ \A k \in 1..(i - 1) : s[k].k # open
    /\ \A k \in (i + 1)..(j - 1) : s[k].k # close

\* which kind of span is to be selected
SpanKind(s) ==
    IF SpanExists(s, "[", "]") THEN "["
    ELSE IF SpanExists(s, "{", "}") THEN "{"
    ELSE "none"

Closer(open) == IF open = "[" THEN "]" ELSE "}"

\* the decoded value of a span, null when it is not JSON
DecodedOrNull(span) == IF json_loads(span).ok THEN json_loads(span).val ELSE PyNone

\* the text is OfficeArray between some prose and some prose
EmbedsOfficeArray(text) ==
    \E b \in SeqsUpTo(ProseAlphabet, MaxBefore) :
       \E a \in SeqsUpTo(ProseAlphabet, MaxAfter) : text = b \o OfficeArray \o a

\* C7: the one-entry array embedded in any prose before and after it is
\* returned as exactly that one entry, its code 99213 intact.
C7_RoundTrip ==
    (ParserReturned /\ p_in.some /\ EmbedsOfficeArray(p_in.text)) =>
        p_out = Returned(PyList(<<OfficeValue>>))

\* C8: the leftmost shortest [...] span is selected if there is one, else the
\* leftmost shortest {...} span, else the result is null; the result is the
\* decoded value of the selected span.
C8_SpanSelection ==
    (ParserReturned /\ p_in.some /\ p_in.text # <<>>) =>
        LET s    == p_in.text
            kind == SpanKind(s)
        IN  IF kind = "none" THEN p_out.val = PyNone
            ELSE /\ \E i, j \in 1..Len(s) : IsFirstShortest(s, i, j, kind, Closer(kind))
                 /\ \A i, j \in 1..Len(s) :
                       IsFirstShortest(s, i, j, kind, Closer(kind))
                         => p_out.val = DecodedOrNull(SubSeq(s, i, j))

\* an empty object in the prose before the array: the array is what is decoded
C8_Witness ==
    /\ ParserReturned /\ p_in.some /\ Len(p_in.text) > 2
    /\ p_in.text[1] = LBrace /\ p_in.text[2] = RBrace
    /\ p_out.val = PyList(<<OfficeValue>>)

\* the leftmost shortest span of this kind is not JSON
SpanNotJson(s, open) ==
    \E i \in 1..Len(s) :
       /\ s[i].k = open
       /\ \A k \in 1..(i - 1) : s[k].k # open
       /\ \E j \in (i + 1)..Len(s) :
             /\ IsFirstShortest(s, i, j, open, Closer(open))
             /\ ~json_loads(SubSeq(s, i, j)).ok

\* the call had nothing it could decode
NothingDecodable(resp) ==
    \/ ~resp.some
    \/ resp.text = <<>>
    \/ SpanKind(resp.text) = "none"
    \/ SpanNotJson(resp.text, SpanKind(resp.text))

\* C9: the parser never raises; for an absent or empty text, a text without a
\* span and a span that is not JSON it returns null; and the loop takes a null
\* probe as zero codes: it goes on to the next attempt, or after the last one
\* to the final parse, which ends as a parse failure and not as an exception.
C9_NeverRaises ==
    /\ ParserReturned =>
          /\ ~p_out.raised
          /\ NothingDecodable(p_in) => p_out.val = PyNone
    /\ \A i \in 1..Len(history) :
          history[i].probed =>
             /\ ~history[i].probe.raised
             /\ NothingDecodable(history[i].response) => history[i].probe.val = PyNone
             /\ (history[i].probe.val = PyNone) =>
                   /\ history[i].count = 0
                   /\ (i = Len(history) /\ i < 3) => pc = "loop"
                   /\ (i = Len(history) /\ i = 3) =>
                         (pc = "after_loop" \/ (Returns /\ retSite = "parse_failure"))

\* a bracket span that holds prose: selected, not JSON, null returned
C9_Witness ==
    /\ ParserReturned
    /\ p_in = Text(<<LBrack, Word, RBrack>>)
    /\ p_out = Returned(PyNone)

\* C10: the record made of a mapping has as code the first truthy value under
\* cpt, cptCode, code (in that order), else the empty string; modifier1,
\* modifier2 and description are copied when present, else the empty string.
C10_Normalize ==
    (n_pc = "done" /\ n_in.t = "dict") =>
        /\ ~n_out.raised
        /\ n_out.val.t = "dict"
        /\ DOMAIN n_out.val.map = {"code", "modifier1", "modifier2", "description"}
        /\ n_out.val.map["code"] = FirstCode(n_in)
        /\ \A k \in {"modifier1", "modifier2", "description"} :
              n_out.val.map[k] = IF k \in DOMAIN n_in.map THEN n_in.map[k] ELSE PyStr(<<>>)

\* the entry holding only cptCode = 91122
C10_Witness ==
    /\ n_pc = "done"
    /\ n_in.t = "dict" /\ DOMAIN n_in.map = {"cptCode"}
    /\ n_in.map["cptCode"] = PyStr(<<"9", "1", "1", "2", "2">>)
    /\ n_out.val.map["code"] = PyStr(<<"9", "1", "1", "2", "2">>)
    /\ \A k \in {"modifier1", "modifier2", "description"} : n_out.val.map[k] = PyStr(<<>>)

-----------------------------------------------------------------------------
(* Vocabulary of the HTML extractor's properties *)

ExtractorReturned == h_pc = "done"

\* the text holds the word Subjective
HasSubjective(text) ==
    \E i \in 1..Len(text) : text[i].k = "word" /\ text[i].s = "Subjective:"

\* the text holds neither "<" nor ">"
NoAngle(text) ==
    \A i \in 1..Len(text) : text[i].k # "tag" /\ text[i] # Chr("<") /\ text[i] # Chr(">")

\* <b>Subjective:</b> ... <b>Assessment:</b>, in this order
HasSubjectiveAssessmentPair(doc) ==
    \E i \in 1..Len(doc) : \E j \in (i + 3)..Len(doc) :
       /\ At(doc, i, TagB) /\ At(doc, i + 1, LblSubjective) /\ At(doc, i + 2, TagEndB)
       /\ At(doc, j, TagB) /\ At(doc, j + 1, LblAssessment) /\ At(doc, j + 2, TagEndB)

\* the trimmed length of the combined section text of a document
CombinedLen(doc) == StrLen(str_strip(CombinedSections(doc)))

\* the cleaned table cells that qualify for the fallback
QualifyingCells(doc) == relevant_content(table_matches(doc, 1))

\* C11 as stated: the empty string gives the message "No clinical notes found
\* in the provided HTML content".
C11_EmptyGivesSentinel ==
    (ExtractorReturned /\ h_in = <<>>) => h_out = NoNotesFound

\* C11, amended: extract_clinical_notes_from_html applied to the empty string
\* returns the empty string.
C11_EmptyGivesEmpty ==
    (ExtractorReturned /\ h_in = <<>>) => h_out = <<>>

C11_Witness == ExtractorReturned /\ h_in = <<>> /\ h_out = <<>>

C13_ReturnedFrom100 ==
    (ExtractorReturned /\ h_in # <<>> /\ CombinedLen(h_in) >= UsableLen) =>
        h_out = str_strip(CombinedSections(h_in))

\* C13, amended: the combined section text is returned whenever its trimmed
\* length is more than 100; at 100 or less the table-cell fallback runs and
\* its cells are returned; the message "No clinical notes found ..." is
\* returned only when the fallback finds no qualifying cell.
C13_ReturnedAbove100 ==
    (ExtractorReturned /\ h_in # <<>>) =>
        /\ CombinedLen(h_in) > UsableLen => h_out = str_strip(CombinedSections(h_in))
        /\ (CombinedLen(h_in) <= UsableLen /\ QualifyingCells(h_in) # <<>>) =>
              h_out = JoinLines(QualifyingCells(h_in))
        /\ (CombinedLen(h_in) <= UsableLen /\ QualifyingCells(h_in) = <<>>) =>
              h_out = NoNotesFound
        /\ h_out = NoNotesFound =>
              (CombinedLen(h_in) <= UsableLen /\ QualifyingCells(h_in) = <<>>)

\* a combined text of exactly 100 characters, no cell: the message is returned
C13_Witness ==
    /\ ExtractorReturned
    /\ CombinedLen(h_in) = UsableLen
    /\ h_out = NoNotesFound

-----------------------------------------------------------------------------
(* Vocabulary of the workflow's properties *)

FlowReturned == w_pc = "done"

LogHas(op) == \E k \in 1..Len(w_log) : w_log[k].op = op

FrameOps == {"skip", "no_frame", "no_content", "read"}

\* the positions of the log at which an iframe was examined
FramePositions == {k \in 1..Len(w_log) : w_log[k].op \in FrameOps}

\* a dialog-close attempt: the close candidates were tried
CloseAttempted == LogHas("close_button")

\* the value the function returns for the notes it holds
ValueFor(notes) ==
    IF notes # <<>> /\ StrLen(notes) > DisplayMinLen THEN format_notes(notes)
    ELSE NoNotesExtracted

\* the attributes of the iframe name no progress notes
LacksIndication(f) == f.id # "ProgNoteViwerFrame" /\ f.name # "progressNotes"

\* the iframe was read and its content holds a clinical marker
ReadWithMarker(k) == w_log[k].op = "read" /\ HasMarker(w_log[k].f.doc)

\* C14 as stated: on every path a dialog-close attempt happens before the
\* function returns.
C14_CloseOnEveryPath == FlowReturned => CloseAttempted

\* C14, amended: on the paths on which the dialog was opened and the iframes
\* were scanned (notes returned, no clinical content) the close candidates are
\* tried, and the Escape key only after them, before the function returns,
\* and the value returned is the same whether the dialog was closed or not;
\* when the dialog cannot be opened, or the wait after the click raises, the
\* function returns without a close attempt.
C14_CloseAfterScan ==
    /\ (FlowReturned /\ LogHas("enumerate")) =>
          /\ w_site \in {"notes", "no_notes"}
          /\ CloseAttempted
          /\ w_ret = ValueFor(w_notes)
    /\ (FlowReturned /\ ~LogHas("enumerate")) =>
          /\ w_site \in {"dialog_not_found", "exception"}
          /\ ~CloseAttempted /\ ~LogHas("escape")
    /\ \A k \in 1..Len(w_log) :
          /\ w_log[k].op = "escape" => (k > 1 /\ w_log[k - 1].op = "close_button")
          /\ w_log[k].op = "close_button" => w_pc \in {"display", "done"}
    /\ ~w_closed => (LogHas("escape") \/ ~CloseAttempted)

\* notes were returned although neither a close button nor Escape worked
C14_Witness ==
    /\ FlowReturned /\ w_site = "notes"
    /\ LogHas("escape") /\ ~w_closed

\* C15: the iframes are examined in document order; the content handed on is
\* that of the first iframe that is not skipped, is read and holds a clinical
\* marker; after it no iframe is examined; an iframe whose attributes name no
\* progress notes is skipped and never read.
C15_FirstMarkedFrame ==
    /\ \A k \in FramePositions :
          /\ w_log[k].i = Cardinality({j \in FramePositions : j <= k})
          /\ w_log[k].i <= w_n
          /\ LogHas("enumerate")
          /\ LacksIndication(w_log[k].f) => w_log[k].op = "skip"
          /\ ReadWithMarker(k) =>
                /\ w_content = Content(w_log[k].f.doc)
                /\ \A j \in FramePositions : j <= k
    /\ w_content.some =>
          \E k \in FramePositions :
             /\ ReadWithMarker(k) /\ ~LacksIndication(w_log[k].f)
             /\ w_content.text = w_log[k].f.doc
             /\ \A j \in FramePositions : j < k => ~ReadWithMarker(j)

\* two iframes, the first is read and holds a marker: the second is not examined
C15_Witness ==
    /\ FlowReturned /\ w_n = 2 /\ w_content.some
    /\ Cardinality(FramePositions) = 1

\* the text the extractor makes of the content found
ExtractedOf(content) == extract_clinical_notes_from_html(content.text)

\* C16 as stated: an extracted text shorter than 100 characters makes the raw
\* HTML the value returned, verbatim; an extracted text of 100 characters or
\* more is returned.
C16_RawBelow100 ==
    (FlowReturned /\ w_content.some) =>
        /\ StrLen(ExtractedOf(w_content)) < ParsedMinLen => w_ret = w_content.text
        /\ StrLen(ExtractedOf(w_content)) >= ParsedMinLen => w_ret = ExtractedOf(w_content)

\* C16, amended: an extracted text of 100 characters or fewer makes the raw
\* HTML the clinical notes, an extracted text of more than 100 characters is
\* itself the clinical notes; the notes are returned with their escape
\* sequences replaced and trimmed when they are longer than 100 characters,
\* and otherwise "No clinical notes extracted" is returned.
C16_RawUpTo100 ==
    (FlowReturned /\ w_content.some) =>
        /\ StrLen(ExtractedOf(w_content)) <= ParsedMinLen => w_notes = w_content.text
        /\ StrLen(ExtractedOf(w_content)) > ParsedMinLen => w_notes = ExtractedOf(w_content)
        /\ StrLen(w_notes) > DisplayMinLen => w_ret = format_notes(w_notes)
        /\ StrLen(w_notes) <= DisplayMinLen => w_ret = NoNotesExtracted

\* an extracted text of exactly 100 characters: the raw HTML is returned
C16_Witness ==
    /\ FlowReturned /\ w_content.some
    /\ StrLen(ExtractedOf(w_content)) = ParsedMinLen
    /\ w_ret = format_notes(w_content.text)
    /\ w_ret # ExtractedOf(w_content)

\* C17: when no control that opens the dialog can be clicked the run ends with
\* "Could not open Progress Notes dialog": no iframe is listed or read and the
\* extractor is not called.
C17_DialogNotFound ==
    /\ LogHas("none") =>
          /\ FlowReturned /\ w_site = "dialog_not_found" /\ w_ret = CouldNotOpen
          /\ ~LogHas("enumerate") /\ ~LogHas("extract")
          /\ FramePositions = {}
          /\ ~w_content.some
    /\ w_site = "dialog_not_found" => LogHas("none")

C17_Witness == FlowReturned /\ w_site = "dialog_not_found" /\ Len(w_log) = 1

-----------------------------------------------------------------------------
(* Vocabulary of the prompt's properties *)

\* the payload holds no entry
ZeroEntries(v) ==
    CASE v.t = "none" -> TRUE
      [] v.t = "list" -> v.items = <<>>
      [] v.t = "dict" ->
            IF "cpt_codes" \in DOMAIN v.map
            THEN v.map["cpt_codes"].t = "list" /\ v.map["cpt_codes"].items = <<>>
            ELSE IF "codes" \in DOMAIN v.map
            THEN v.map["codes"].t = "list" /\ v.map["codes"].items = <<>>
            ELSE TRUE
      [] OTHER -> FALSE

\* the attempt got no text, or text that parses to zero entries
GotNothing(h) ==
    \/ ~HasText(h.response)
    \/ h.probed /\ ~h.probe.raised /\ ZeroEntries(h.probe.val)

\* the prompt in use after the i-th call
PromptAfter(i) == IF i < Len(history) THEN history[i + 1].prompt ELSE bedrock_prompt

\* C18: after an attempt without text, or with text that parses to zero
\* entries, the prompt is the prompt of that attempt, nothing appended, and the
\* loop goes on to the next attempt if one remains.
C18_NoEscalationOnNothing ==
    \A i \in 1..Len(history) :
       GotNothing(history[i]) =>
          /\ PromptAfter(i) = history[i].prompt
          /\ (i = Len(history) /\ i < max_retries) => pc = "loop"
          /\ (i = Len(history) /\ i = max_retries) => pc \in {"after_loop", "done"}

\* an attempt answered with an empty array, then a further attempt with the
\* same prompt
C18_Witness ==
    /\ Len(history) >= 2
    /\ HasText(history[1].response) /\ history[1].probe.val = PyList(<<>>)
    /\ history[2].prompt = history[1].prompt

\* the instruction of the test script for entries without a code
MissingCodeInstruction(missing) ==
    [kind |-> "missing_code", n |-> min_expected_codes, got |-> missing]

\* the entries of the answer of a call, and how many lack their code
EntriesAt(i) == EntriesOf(history[i].probe.val)
LackingAt(i) == Cardinality({j \in 1..Len(EntriesAt(i)) : LacksCode(EntriesAt(i)[j])})

\* the answer of the i-th call decoded to a non-empty array of mappings
EntryListAt(i) ==
    /\ history[i].probed /\ ~history[i].probe.raised
    /\ history[i].probe.val.t = "list" /\ EntriesAt(i) # <<>>
    /\ \A j \in 1..Len(EntriesAt(i)) : EntriesAt(i)[j].t = "dict"

\* C19: after a non-final attempt whose answer has an entry without its code
\* the missing-code instruction, and only it, is appended to the prompt; after
\* one with all codes but fewer than min_expected_codes entries the
\* at-least-N instruction, and only it; after the final attempt nothing; the
\* prompt of every attempt begins with the prompt of the attempt before.
C19_OneInstruction ==
    /\ \A i \in 1..Len(history) :
          (EntryListAt(i) /\ i < max_retries /\ pc # "done") =>
             /\ LackingAt(i) > 0 =>
                   PromptAfter(i) = Append(history[i].prompt, MissingCodeInstruction(LackingAt(i)))
             /\ (LackingAt(i) = 0 /\ Len(EntriesAt(i)) < min_expected_codes) =>
                   PromptAfter(i) = Append(history[i].prompt, AtLeastInstruction(Len(EntriesAt(i))))
    /\ Len(history) = max_retries => bedrock_prompt = history[max_retries].prompt
    /\ \A i \in 1..(Len(history) - 1) :
          SubSeq(history[i + 1].prompt, 1, Len(history[i].prompt)) = history[i].prompt

-----------------------------------------------------------------------------
(* Vocabulary of the payload's properties *)

ShapeReturned == s_pc = "done"

\* a non-empty sequence of mappings
IsEntrySeq(v) ==
    v.t = "list" /\ v.items # <<>> /\ \A i \in 1..Len(v.items) : v.items[i].t = "dict"

HasKey(v, k) == v.t = "dict" /\ k \in DOMAIN v.map

\* the run has no usable codes: it returns None
NoUsableCodes(out) == out.val = PyNone /\ out.site \in {"parse_failure", "no_valid_codes"}

\* C20: a sequence gives its own entries, one record each and in order; an
\* object with the key cpt_codes gives the sequence under that key, also when
\* it has the key codes; an object with the key codes gives that sequence; any
\* other object gives no entries; no entries and a failed decoding both end
\* as no usable codes.
C20_ShapePriority ==
    ShapeReturned =>
        LET v == s_in.val IN
        /\ IsEntrySeq(v) =>
              /\ s_out.site = "codes" /\ Len(s_out.val.items) = Len(v.items)
              /\ \A i \in 1..Len(v.items) :
                    s_out.val.items[i].map["code"] = FirstCode(v.items[i])
        /\ (HasKey(v, "cpt_codes") /\ IsEntrySeq(v.map["cpt_codes"])) =>
              (s_out.site = "codes" /\ s_out.val = v.map["cpt_codes"])
        /\ (~HasKey(v, "cpt_codes") /\ HasKey(v, "codes") /\ IsEntrySeq(v.map["codes"])) =>
              (s_out.site = "codes" /\ s_out.val = v.map["codes"])
        /\ (HasKey(v, "cpt_codes") /\ ~IsEntrySeq(v.map["cpt_codes"])) =>
              s_out.val = PyNone
        /\ (v.t = "dict" /\ ~HasKey(v, "cpt_codes") /\ ~HasKey(v, "codes")) =>
              NoUsableCodes(s_out)
        /\ (v.t = "none" \/ ZeroEntries(v)) => NoUsableCodes(s_out)

\* an object with both keys: the sequence under cpt_codes is the result
C20_Witness ==
    /\ ShapeReturned
    /\ HasKey(s_in.val, "cpt_codes") /\ HasKey(s_in.val, "codes")
    /\ IsEntrySeq(s_in.val.map["cpt_codes"]) /\ IsEntrySeq(s_in.val.map["codes"])
    /\ s_in.val.map["cpt_codes"] # s_in.val.map["codes"]
    /\ s_out.val = s_in.val.map["cpt_codes"]

-----------------------------------------------------------------------------
(* Vocabulary of the order of the sections *)

\* the block of a section: its title line and its cleaned text, if matched
Block(title, m) ==
    IF m.found THEN title \o <<Nl>> \o clean_html_content(m.body) ELSE <<>>

\* the blocks of a document in the order Patient+Subjective, HPI, PFPT,
\* Examination, Assessment, Procedure Codes, Visit Code
SectionBlocks(doc) ==
    << PatientSection(patient_match(doc)),
       Block(<<LblHPI>>, hpi_match(doc)),
       Block(<<WPFPT, Sp, WDetails>>, pfpt_matches(doc)),
       Block(<<LblExamination>>, exam_match(doc)),
       Block(<<LblAssessment>>, assessment_match(doc)),
       Block(<<WProcedure, Sp, WCodes>>, procedure_match(doc)),
       Block(<<WVisit, Sp, WCode>>, visit_match(doc)) >>

IsPresent(block) == block # <<>>

\* the blocks joined by a blank line
RECURSIVE JoinBlank(_)
JoinBlank(blocks) ==
    IF blocks = <<>> THEN <<>>
    ELSE IF Len(blocks) = 1 THEN blocks[1]
    ELSE blocks[1] \o <<Nl, Nl>> \o JoinBlank(Tail(blocks))

\* the first place of a sequence of atoms in a text, or 0
FirstPlace(text, part) ==
    LET places == {i \in 1..Len(text) : i + Len(part) - 1 <= Len(text)
                                        /\ SubSeq(text, i, i + Len(part) - 1) = part} IN
    IF places = {} THEN 0 ELSE SetMin(places)

\* C21: the combined clinical text is the present sections in the order
\* Patient+Subjective, HPI, PFPT, Examination, Assessment, Procedure Codes,
\* Visit Code, a blank line between two consecutive ones and none before the
\* first, whatever the order of the sections in the HTML.
C21_FixedSectionOrder ==
    (ExtractorReturned /\ h_in # <<>>) =>
        /\ CombinedSections(h_in) = JoinBlank(SelectSeq(SectionBlocks(h_in), IsPresent))
        /\ CombinedLen(h_in) > UsableLen =>
              h_out = str_strip(JoinBlank(SelectSeq(SectionBlocks(h_in), IsPresent)))

\* the visit code stands before the HPI in the HTML and after it in the text
C21_Witness ==
    /\ ExtractorReturned
    /\ visit_match(h_in).found /\ hpi_match(h_in).found /\ assessment_match(h_in).found
    /\ FirstPlace(h_in, <<WVisit, Sp, WCode>>) < FirstPlace(h_in, <<LblHPI>>)
    /\ FirstPlace(h_out, <<LblHPI, Nl>>) = 1
    /\ FirstPlace(h_out, <<LblHPI, Nl>>) < FirstPlace(h_out, <<Nl, Nl, LblAssessment, Nl>>)
    /\ FirstPlace(h_out, <<Nl, Nl, LblAssessment, Nl>>) < FirstPlace(h_out, <<Nl, Nl, WVisit, Sp, WCode, Nl>>)

-----------------------------------------------------------------------------
\* the iframes were listed and none that was read holds a clinical marker
ScannedWithoutMarker ==
    /\ LogHas("enumerate")
    /\ w_pc \in {"parse", "close", "display", "done"}
    /\ \A k \in FramePositions : ~ReadWithMarker(k)

\* C22: when all iframes were scanned and none that was read holds a clinical
\* marker (no iframe at all, every iframe skipped, every read failing) the
\* extractor is not called and the value returned is the failure message
\* "No clinical notes extracted", not clinical text.
C22_NoClinicalContent ==
    ScannedWithoutMarker =>
        /\ ~w_content.some
        /\ ~LogHas("extract")
        /\ w_pc \in {"close", "display", "done"} => w_notes = NoneExtractable
        /\ FlowReturned => (w_site = "no_notes" /\ w_ret = NoNotesExtracted)

\* two iframes were examined, one of them read, none with a marker
C22_Witness ==
    /\ FlowReturned /\ ScannedWithoutMarker
    /\ Cardinality(FramePositions) >= 2 /\ LogHas("read") /\ LogHas("skip")
    /\ w_ret = NoNotesExtracted

-----------------------------------------------------------------------------
(* Vocabulary of the population's properties *)

PopulationDone == u_pc = "done"

\* the records handed to add_cpt_codes_to_ecw_interface
RecordsOf == IF u_pred.val.t = "list" THEN u_pred.val.items ELSE <<>>

\* the places of the log at which the loop took up a record
RecordPositions == {k \in 1..Len(u_log) : u_log[k].op \in {"skip", "code"}}

IcdPositions == {k \in 1..Len(u_log) : u_log[k].op = "icd"}

\* the loop over the records is over
RecordsFinished == u_pc \in {"icd", "done"}

\* C23: a record whose code field or modifier field is not found is skipped
\* without ending the loop: the records are taken up in list order, each at
\* most once, and every record of the list is taken up.
C23_SkipWithoutAbort ==
    /\ \A k \in RecordPositions :
          /\ u_log[k].i = Cardinality({j \in RecordPositions : j <= k})
          /\ u_log[k].i <= Len(RecordsOf)
    /\ \A k \in 1..Len(u_log) :
          u_log[k].op \in {"m1", "m2"} =>
             \E j \in RecordPositions : j < k /\ u_log[j].i = u_log[k].i /\ u_log[j].op = "code"
    /\ RecordsFinished => Cardinality(RecordPositions) = Len(RecordsOf)

\* the first record was skipped, a modifier of the second was not found, and
\* the second was still taken up
C23_Witness ==
    /\ PopulationDone /\ Len(RecordsOf) = 2
    /\ \E k \in RecordPositions : u_log[k].op = "skip" /\ u_log[k].i = 1
    /\ \E k \in RecordPositions : u_log[k].op = "code" /\ u_log[k].i = 2
    /\ \E k \in 1..Len(u_log) : u_log[k].op = "m1" /\ u_log[k].what = "not_found"

\* the code of the record the log entry is about
CodeAt(k) == DictGet(RecordsOf[u_log[k].i], "code", EmptyStr)

\* C24: a record whose code is empty is not entered into the field of the new
\* row as a code and makes no row of the grid.
C24_EmptyCodeSurfaced ==
    /\ \A k \in 1..Len(u_log) : u_log[k].op = "code" => Truthy(CodeAt(k))
    /\ \A r \in 1..Len(u_grid) : Truthy(u_grid[r].code)

\* C26: the modifiers of a record are aimed at the row of the grid that holds
\* the code of that record, whatever fields were not found before.
C26_ModifiersOnOwnRow ==
    \A k \in 1..Len(u_log) :
       u_log[k].op \in {"m1", "m2"} =>
          \E j \in 1..(k - 1) :
             /\ u_log[j].op = "code" /\ u_log[j].i = u_log[k].i
             /\ u_log[j].row = u_log[k].row

\* C30: the fixed ICD code is attempted exactly once in a run, after the loop
\* over the records is over, whether the prediction gave codes, gave none or
\* failed.
C30_IcdOnceAtEnd ==
    /\ Cardinality(IcdPositions) <= 1
    /\ PopulationDone =>
          /\ Cardinality(IcdPositions) = 1
          /\ u_log[Len(u_log)].op = "icd"
    /\ IcdPositions # {} =>
          /\ PopulationDone
          /\ Cardinality(RecordPositions) = Len(RecordsOf)
          /\ \A k \in RecordPositions : \A j \in IcdPositions : k < j

\* the prediction failed and the ICD code was still attempted
C30_Witness ==
    /\ PopulationDone /\ u_pred.site = "exception"
    /\ Len(u_log) = 1 /\ u_log[1].op = "icd"

-----------------------------------------------------------------------------
\* not clinical_notes or len(clinical_notes.strip()) < 50, of a text
RefusedAsNotes(text) == text = <<>> \/ StrLen(str_strip(text)) < MinNotesLen

\* the run returned without clinical content
ReturnedWithoutContent ==
    FlowReturned /\ w_site \in {"dialog_not_found", "no_notes", "exception"}

\* C27: a text returned without clinical content (the dialog could not be
\* opened, no iframe held a marker, an error was caught) has a trimmed length
\* below 50 characters, so that get_predicted_cpt_codes refuses it.
C27_FailureTextRefused ==
    ReturnedWithoutContent => RefusedAsNotes(w_ret)

-----------------------------------------------------------------------------
(* Vocabulary of the properties of the value returned by the prediction *)

\* the probe parse of the i-th call accepts the answer: enough entries, none
\* without its code
Accepted(i) ==
    /\ history[i].probed /\ ~history[i].probe.raised
    /\ history[i].count >= min_expected_codes
    /\ LackingAt(i) = 0

\* a non-empty list of records, each with a code that is not blank
RecordsWithCodes(v, n) ==
    /\ v.t = "list" /\ Len(v.items) = n /\ n > 0
    /\ \A j \in 1..Len(v.items) : v.items[j].t = "dict" /\ ~LacksCode(v.items[j])

\* C25: when the probe parse of an attempt accepts the answer, the final
\* parse of that answer returns a list of exactly that many records, each
\* with a code that is not blank, also when the entries are not mappings.
C25_AcceptedIsReturned ==
    (Returns /\ history # <<>> /\ Accepted(Len(history))) =>
        RecordsWithCodes(ret, LastCall.count)

RecordKeys == {"code", "modifier1", "modifier2", "description"}

\* a non-empty list of records with exactly the four keys
IsRecordList(v) ==
    /\ v.t = "list" /\ v.items # <<>>
    /\ \A j \in 1..Len(v.items) :
          v.items[j].t = "dict" /\ DOMAIN v.items[j].map = RecordKeys

\* C28: get_predicted_cpt_codes returns None or a non-empty list of records
\* with exactly the keys code, modifier1, modifier2, description, whatever
\* the shape of the answer; the entries of an array inside an object are made
\* records like those of a bare array.
C28_RecordsOrNone ==
    Returns =>
        /\ ret = PyNone \/ IsRecordList(ret)
        /\ retSite = "codes" => IsRecordList(ret)
        /\ (parsed_text = Text(WrappedArray) /\ retSite # "exception") =>
              ret = PyList([i \in 1..min_expected_codes |->
                              PyDict([k \in RecordKeys |->
                                        IF k = "code" THEN PyStr(C91122) ELSE EmptyStr])])

\* the answer was the array inside an object, its entries keyed cptCode: the
\* value returned is the records of those entries
C28_Witness ==
    /\ Returns /\ parsed_text = Text(WrappedArray)
    /\ IsRecordList(ret) /\ Len(ret.items) = min_expected_codes
    /\ ret.items[1].map["code"] = PyStr(C91122)

\* C29: when the text holds a "[" with a "]" somewhere after it, the result
\* of the parser is null or the decoded value of the first such span, an
\* array and never an object; an object is delivered to the loop only for an
\* answer without such a span.
C29_ArrayBeforeObject ==
    /\ (ParserReturned /\ p_in.some /\ SpanExists(p_in.text, "[", "]")) =>
          /\ ~p_out.raised
          /\ p_out.val.t \in {"none", "list"}
          /\ \A i, j \in 1..Len(p_in.text) :
                IsFirstShortest(p_in.text, i, j, "[", "]") =>
                   p_out.val = DecodedOrNull(SubSeq(p_in.text, i, j))
    /\ \A i \in 1..Len(history) :
          (history[i].probed /\ history[i].probe.val.t = "dict") =>
             ~SpanExists(history[i].response.text, "[", "]")

\* the array under cpt_codes inside an object comes back as the bare array
C29_Witness ==
    /\ ParserReturned
    /\ p_in = Text(<<LBrace, Key("cpt_codes")>> \o ArrayOf(1, 0) \o <<RBrace>>)
    /\ p_out.val.t = "list" /\ Len(p_out.val.items) = 1

=============================================================================
